---- MODULE Spec2Model ----
(***************************************************************************)
(* Verification model of the geo_risk_app backend: the request-level       *)
(* result cache (app/services/caching_service.py), the assessment endpoint *)
(* (app/api/risk.py) and the hazard scorers (app/services/risk_engine.py). *)
(*                                                                         *)
(* Numbers.  Python floats are modelled by scaled integers:                *)
(*   coordinates of cache keys   units of 0.00001 degree                   *)
(*   time.time()                 an integer clock `now`                    *)
(*   scores                      hundredths of a point (10000 = 100.0)     *)
(*   dimensionless factors       thousandths (1000 = 1.0)                  *)
(***************************************************************************)
EXTENDS Integers, Sequences, FiniteSets, TLC

Max(a, b) == IF a >= b THEN a ELSE b
Min(a, b) == IF a <= b THEN a ELSE b
Abs(a) == IF a < 0 THEN 0 - a ELSE a

(***************************************************************************)
(* Bounds of the model.                                                    *)
(***************************************************************************)
MaxSizeBound == 2   \* max_size is drawn from 0..MaxSizeBound
MaxTime == 2        \* the clock runs from 0 to MaxTime

\* default_ttl_seconds = 3600, in clock units of 1800 s
DefaultTtlUnits == 2
MaxCount == 1       \* cap of the hit/miss counters

(***************************************************************************)
(* CacheKey.risk_assessment                                                *)
(***************************************************************************)
\* Lexicographic order of the HazardType values, as sorted() compares them.
HazardRank ==
    [earthquake |-> 1, fire |-> 2, flood |-> 3, hurricane |-> 4,
     storm |-> 5, tornado |-> 6, tsunami |-> 7]

\* Lexicographic order of the custom-factor names the endpoint passes.
FactorRank ==
    [building_code_rating |-> 1, infrastructure_quality |-> 2,
     population_density |-> 3]

\* round(x, 4) for x = c * 0.00001: the nearest multiple of 0.0001, returned
\* as sign and magnitude (in units of 0.0001) because round() of a small
\* negative float is -0.0, which formats differently from 0.0.  A decimal
\* tie (c % 10 = 5) is decided in Python by the binary value of the float;
\* here it is rounded half-even.
Round4(c) ==
    LET a == Abs(c)
        q == a \div 10
        r == a % 10
        m == IF r < 5 THEN q
             ELSE IF r > 5 THEN q + 1
             ELSE IF q % 2 = 0 THEN q ELSE q + 1
    IN  [neg |-> c < 0, mag |-> m]

\* f"{x}" of a rounded float: the sign character and the digits.
FormatFloat(r) == <<IF r.neg THEN "-" ELSE "", r.mag>>

RECURSIVE InsertHazard(_, _)
InsertHazard(h, s) ==
    IF s = <<>> THEN <<h>>
    ELSE IF HazardRank[h] < HazardRank[Head(s)] THEN <<h>> \o s
    ELSE <<Head(s)>> \o InsertHazard(h, Tail(s))

\* Faulty variant: the hazard list is joined without being sorted.
UnsortedHazards(hs) == hs

\* sorted(h.value for h in hazard_types), joined with ","
RECURSIVE SortedHazards(_)
SortedHazards(hs) ==
    IF hs = <<>> THEN <<>>
    ELSE InsertHazard(hs[Len(hs)], SortedHazards(SubSeq(hs, 1, Len(hs) - 1)))

RECURSIVE InsertFactor(_, _)
InsertFactor(f, s) ==
    IF s = <<>> THEN <<f>>
    ELSE IF FactorRank[f[1]] < FactorRank[Head(s)[1]] THEN <<f>> \o s
    ELSE <<Head(s)>> \o InsertFactor(f, Tail(s))

\* json.dumps(sorted(risk_factors.items())); the dict is the sequence of its
\* (name, value) items in insertion order, names distinct.
RECURSIVE SortedFactors(_)
SortedFactors(fs) ==
    IF fs = <<>> THEN <<>>
    ELSE InsertFactor(fs[Len(fs)], SortedFactors(SubSeq(fs, 1, Len(fs) - 1)))

\* Faulty variant: coordinates rounded to 3 decimals instead of 4.
Round3(c) ==
    LET a == Abs(c)
        q == a \div 100
        r == a % 100
    IN  [neg |-> c < 0, mag |-> 10 * (IF r < 50 THEN q ELSE q + 1)]

\* lat_rounded = round(latitude, 4); lon_rounded = round(longitude, 4)
RoundCoordinate(c) == Round4(c)

\* The key string, as the record of its parts; factors is <<>> when the
\* part is omitted (risk_factors None or empty).
CacheKeyRiskAssessment(latitude, longitude, hazard_types, risk_factors) ==
    [prefix |-> "risk_assessment",
     lat |-> FormatFloat(RoundCoordinate(latitude)),
     lon |-> FormatFloat(RoundCoordinate(longitude)),
     hazards |-> SortedHazards(hazard_types),
     factors |-> IF risk_factors # <<>> THEN SortedFactors(risk_factors) ELSE <<>>]

(***************************************************************************)
(* Requests used to drive the cache: arguments of get_risk_assessment and  *)
(* set_risk_assessment.  Two of the latitudes round to the same value.     *)
(***************************************************************************)
ReqHazards == {<<"flood", "earthquake">>, <<"earthquake", "flood">>}
ReqFactors == {<<>>, << <<"population_density", 1>> >>}
Requests ==
    {[lat |-> 12, lon |-> 0, hazards |-> hz, factors |-> <<>>] : hz \in ReqHazards}
    \cup {[lat |-> 16, lon |-> 0, hazards |-> <<"earthquake", "flood">>, factors |-> fs] :
        fs \in ReqFactors}

KeyOf(r) == CacheKeyRiskAssessment(r.lat, r.lon, r.hazards, r.factors)
Keys == {KeyOf(r) : r \in Requests}

\* Cached values: an empty dict (falsy in Python) and a non-empty result.
EmptyDict == "{}"
Values == {EmptyDict, "result"}
\* The value the direct callers of InMemoryCache.set store.
DirectValues == {"result"}
NoneVal == "None"
Truthy(v) == v # NoneVal /\ v # EmptyDict

(***************************************************************************)
(* InMemoryCache                                                           *)
(***************************************************************************)
VARIABLES
    max_size,       \* InMemoryCache.max_size
    default_ttl,    \* InMemoryCache.default_ttl
    cache,          \* InMemoryCache._cache: key -> entry
    access_order,   \* InMemoryCache._access_order
    now,            \* time.time()
    hit_count,      \* CachingService.hit_count
    miss_count,     \* CachingService.miss_count
    lastOp,         \* the last call and what it returned to its caller
    useOrder,       \* history: stored keys, oldest successful get/set first
    written,        \* history: key -> the last set_risk_assessment still standing
    co,             \* coroutine -> its call and its position in it
    lock,           \* InMemoryCache._lock: <<>> when free, <<holder>> when held
    ref,            \* history: the store as the calls, run one after another
                    \* in the order they took the lock, leave it
    keyArgs,        \* two argument lists of CacheKey.risk_assessment
    keyOut,         \* the keys derived from them, <<>> until derived
    locations,      \* table locations: the rows, by id
    assessment_rows,\* table risk_assessments: number of rows
    answered,       \* history: request -> time of its last 200 response
    lastAssess,     \* the last assess_risk call and its response
    distance_cache, \* RiskEngine._distance_cache
    proximity_cache_size,   \* RiskEngine.config.proximity_cache_size
    scoreIn,        \* location, hazard sources and historical events scored
    scoreOut,       \* the scorer call made on them and what it returned
    threads,        \* thread -> its position in calculate_distance_km
    active_connections,     \* RealTimeVisualizationManager.active_connections
    subscriptions,  \* RealTimeVisualizationManager.subscriptions
    handlers        \* websocket -> the stream handler serving it

cacheVars == <<max_size, default_ttl, cache, access_order, now, lastOp, useOrder>>
svcVars == <<hit_count, miss_count, written>>
concVars == <<co, lock, ref>>
keyVars == <<keyArgs, keyOut>>
assessVars == <<locations, assessment_rows, answered, lastAssess>>
engineVars == <<distance_cache, proximity_cache_size, scoreIn, scoreOut, threads>>
wsVars == <<active_connections, subscriptions, handlers>>
otherVars == <<keyVars, assessVars, engineVars, wsVars>>
outsideCache == <<svcVars, concVars, otherVars>>
outsideService == <<concVars, otherVars>>

EmptyCache == [k \in {} |-> k]
Put(c, k, e) == [x \in DOMAIN c \cup {k} |-> IF x = k THEN e ELSE c[x]]
Drop(c, k) == [x \in DOMAIN c \ {k} |-> c[x]]

InSeq(s, k) == \E i \in 1..Len(s) : s[i] = k

\* list.remove(key): removes the first occurrence.
RECURSIVE RemoveFirst(_, _)
RemoveFirst(s, k) ==
    IF s = <<>> THEN <<>>
    ELSE IF Head(s) = k THEN Tail(s)
    ELSE <<Head(s)>> \o RemoveFirst(Tail(s), k)

\* "if key in self._access_order: remove(key)" then "append(key)"
MoveToEnd(o, k) == Append(RemoveFirst(o, k), k)

\* get, lines 118-121: the access order after a hit.
GetOrderAfterHit(o, k) == MoveToEnd(o, k)

\* Faulty variant: the expired entry is reported but left in the store.
ExpiredKept(c, o, k) == [cache |-> c, order |-> o]

\* get, lines 112-115: removal of an expired entry.
RemoveExpired(c, o, k) == [cache |-> Drop(c, k), order |-> RemoveFirst(o, k)]

\* Entries are dicts; a well-formed one has 'value', 'expires_at', 'created_at'.
WellFormed(e) == "expires_at" \in DOMAIN e

\* InMemoryCache.get, inside the lock.  raised: KeyError on an entry
\* without 'expires_at' (nothing is modified before the lookup fails).
CacheGet(c, o, k, t) ==
    IF k \notin DOMAIN c
    THEN [cache |-> c, order |-> o, result |-> NoneVal, raised |-> FALSE]
    ELSE IF ~WellFormed(c[k])
    THEN [cache |-> c, order |-> o, result |-> NoneVal, raised |-> TRUE]
    ELSE IF t > c[k].expires_at
    THEN LET r == RemoveExpired(c, o, k)
         IN  [cache |-> r.cache, order |-> r.order, result |-> NoneVal, raised |-> FALSE]
    ELSE [cache |-> c, order |-> GetOrderAfterHit(o, k),
          result |-> c[k].value, raised |-> FALSE]

\* ttl = ttl_seconds or self.default_ttl.  The optional argument is <<>>
\* for None and <<n>> for an integer; 0 is falsy.
TtlEffective(ttl, dttl) == IF ttl = <<>> \/ ttl[1] = 0 THEN dttl ELSE ttl[1]

\* Faulty variant: the entry expires at insertion time.
ExpiresAtNow(t, ttl, dttl) == t

\* expires_at = time.time() + ttl
ExpiresAt(t, ttl, dttl) == t + TtlEffective(ttl, dttl)

\* Faulty variant: evicts only when the store is over capacity.
EvictNeededOffByOne(c, k, ms) == Cardinality(DOMAIN c) > ms /\ k \notin DOMAIN c

\* len(self._cache) >= self.max_size and key not in self._cache
EvictNeeded(c, k, ms) == Cardinality(DOMAIN c) >= ms /\ k \notin DOMAIN c

\* Faulty variant: evicts the most recently used key.
PopLast(o) == [key |-> o[Len(o)], rest |-> SubSeq(o, 1, Len(o) - 1)]

\* lru_key = self._access_order.pop(0)
PopLru(o) == [key |-> Head(o), rest |-> Tail(o)]

\* InMemoryCache.set, inside the lock.  raised: KeyError of
\* "del self._cache[lru_key]" when the popped key is not stored; the
\* pop has happened by then.
CacheSet(c, o, k, v, ttl, t, ms, dttl) ==
    LET evict == EvictNeeded(c, k, ms) /\ o # <<>>
        p == PopLru(o)
    IN  IF evict /\ p.key \notin DOMAIN c
        THEN [cache |-> c, order |-> p.rest, raised |-> TRUE]
        ELSE LET c1 == IF evict THEN Drop(c, p.key) ELSE c
                 o1 == IF evict THEN p.rest ELSE o
                 e == [value |-> v, expires_at |-> ExpiresAt(t, ttl, dttl),
                       created_at |-> t]
             IN  [cache |-> Put(c1, k, e), order |-> MoveToEnd(o1, k),
                  raised |-> FALSE]

\* Faulty variant: delete leaves the key in the access order.
DeleteKeepsOrder(c, o, k) ==
    [cache |-> IF k \in DOMAIN c THEN Drop(c, k) ELSE c, order |-> o]

\* InMemoryCache.delete
CacheDelete(c, o, k) ==
    [cache |-> IF k \in DOMAIN c THEN Drop(c, k) ELSE c,
     order |-> IF InSeq(o, k) THEN RemoveFirst(o, k) ELSE o]

\* InMemoryCache.get_stats.  raised: KeyError on an entry without
\* 'expires_at', ZeroDivisionError of len(self._cache) / self.max_size.
\* utilization is reported in percent.
CacheStats(c, t, ms, dttl) ==
    IF (\E k \in DOMAIN c : ~WellFormed(c[k])) \/ ms = 0
    THEN [raised |-> TRUE, stats |-> <<>>]
    ELSE [raised |-> FALSE,
          stats |-> << [size |-> Cardinality(DOMAIN c),
                        max_size |-> ms,
                        utilization |-> (100 * Cardinality(DOMAIN c)) \div ms,
                        expired_count |->
                            Cardinality({k \in DOMAIN c : t > c[k].expires_at}),
                        default_ttl_seconds |-> dttl] >>]

\* ttl_seconds of set: None, 0 and 1800 s.
TtlArgs == {<<>>, <<0>>, <<1>>}

\* Index of k in the sequence s, 0 when absent.
IndexOf(s, k) == IF InSeq(s, k) THEN CHOOSE i \in 1..Len(s) : s[i] = k ELSE 0

\* What the last call was and what its caller saw; removed and pos record
\* the keys the call took out of the store and where its key stood in the
\* access order when it was made.
Op(name, args, result, raised, stats, c1, c2, pos) ==
    [op |-> name, args |-> args, result |-> result, raised |-> raised,
     stats |-> stats, removed |-> DOMAIN c1 \ DOMAIN c2, pos |-> pos]

\* The key is stored and its entry has not expired.
Live(c, k, t) == k \in DOMAIN c /\ WellFormed(c[k]) /\ t <= c[k].expires_at

\* History of uses: k moved to the end when the call used it successfully
\* (touched = <<k>>), keys no longer stored dropped.
UseAfter(u, touched, c2) ==
    LET u1 == IF touched = <<>> THEN u ELSE MoveToEnd(u, touched[1])
    IN  SelectSeq(u1, LAMBDA x : x \in DOMAIN c2)

InitCache ==
    /\ max_size \in 0..MaxSizeBound
    /\ default_ttl = DefaultTtlUnits
    /\ cache = EmptyCache
    /\ access_order = <<>>
    /\ now = 0
    /\ lastOp = Op("init", <<>>, NoneVal, FALSE, <<>>, EmptyCache, EmptyCache, 0)
    /\ useOrder = <<>>

Get(k) ==
    LET r == CacheGet(cache, access_order, k, now)
    IN  /\ cache' = r.cache
        /\ access_order' = r.order
        /\ lastOp' = Op("get", <<k>>, r.result, r.raised, <<>>, cache, r.cache,
                        IndexOf(access_order, k))
        /\ useOrder' = UseAfter(useOrder,
                                IF Live(cache, k, now) THEN <<k>> ELSE <<>>,
                                r.cache)
        /\ UNCHANGED <<max_size, default_ttl, now>>

Set(k, v, ttl) ==
    LET r == CacheSet(cache, access_order, k, v, ttl, now, max_size, default_ttl)
    IN  /\ cache' = r.cache
        /\ access_order' = r.order
        /\ lastOp' = Op("set", <<k>>, NoneVal, r.raised, <<>>, cache, r.cache,
                        IndexOf(access_order, k))
        /\ useOrder' = UseAfter(useOrder, IF r.raised THEN <<>> ELSE <<k>>, r.cache)
        /\ UNCHANGED <<max_size, default_ttl, now>>

Delete(k) ==
    LET r == CacheDelete(cache, access_order, k)
    IN  /\ cache' = r.cache
        /\ access_order' = r.order
        /\ lastOp' = Op("delete", <<k>>, NoneVal, FALSE, <<>>, cache, r.cache, 0)
        /\ useOrder' = UseAfter(useOrder, <<>>, r.cache)
        /\ UNCHANGED <<max_size, default_ttl, now>>

Clear ==
    /\ cache' = EmptyCache
    /\ access_order' = <<>>
    /\ lastOp' = Op("clear", <<>>, NoneVal, FALSE, <<>>, cache, EmptyCache, 0)
    /\ useOrder' = <<>>
    /\ UNCHANGED <<max_size, default_ttl, now>>

GetStats ==
    LET r == CacheStats(cache, now, max_size, default_ttl)
    IN  /\ lastOp' = Op("get_stats", <<>>, NoneVal, r.raised, r.stats, cache, cache, 0)
        /\ UNCHANGED <<max_size, default_ttl, cache, access_order, now, useOrder>>

\* Passage of time between calls.
Tick ==
    /\ now < MaxTime
    /\ now' = now + 1
    /\ lastOp' = Op("tick", <<>>, NoneVal, FALSE, <<>>, cache, cache, 0)
    /\ UNCHANGED <<max_size, default_ttl, cache, access_order, useOrder>>

vars == <<cacheVars, svcVars, concVars, otherVars>>

NothingWritten == [k \in Keys |-> <<>>]

InitService ==
    /\ hit_count = 0
    /\ miss_count = 0
    /\ written = NothingWritten

Coroutines == {"c1", "c2"}

Idle == [pc |-> "idle", op |-> "none", key |-> <<>>, ttl |-> <<>>, tmp |-> <<>>,
         result |-> <<>>, raised |-> FALSE, expect |-> <<>>, expectRaised |-> FALSE]

InitConc ==
    /\ co = [p \in Coroutines |-> Idle]
    /\ lock = <<>>
    /\ ref = [cache |-> EmptyCache, order |-> <<>>]

\* No key has been derived: both argument lists are the first request.
NoKeys == << <<>>, <<>> >>

InitKeyIdle ==
    /\ keyArgs = << CHOOSE r \in Requests : r.lat = 12 /\ r.hazards[1] = "flood",
                    CHOOSE r \in Requests : r.lat = 12 /\ r.hazards[1] = "flood" >>
    /\ keyOut = NoKeys

\* The database before the first request: one stored location, no
\* assessment row.
StoredLocation == [latitude |-> 12, longitude |-> 0]
NoAssess == [request |-> <<>>, status |-> 0, scored |-> 0, repeat |-> FALSE]

InitAssess ==
    /\ locations = <<StoredLocation>>
    /\ assessment_rows = 0
    /\ answered = {}
    /\ lastAssess = NoAssess

\* The threads that share one RiskEngine, none of them in a call.
Threads == {"t1", "t2"}

NoThreads == [t \in Threads |-> [pc |-> "idle", key |-> <<>>, km |-> <<>>]]

\* The websockets the server is handed, none of them being served yet.
WebSockets == {"ws1", "ws2"}

NoHandlers ==
    [w \in WebSockets |->
        [pc |-> "idle", channel |-> <<>>, registered |-> FALSE, how |-> "none",
         cleanup_raised |-> FALSE, raised |-> FALSE, updates |-> 0]]

\* visualization_manager as constructed: no connection, no channel.
InitWsIdle ==
    /\ active_connections = <<>>
    /\ subscriptions = EmptyCache
    /\ handlers = NoHandlers

\* A RiskEngine on which no scorer has been called.
InitEngineIdle ==
    /\ distance_cache = EmptyCache
    /\ proximity_cache_size = 0
    /\ scoreIn = <<>>
    /\ scoreOut = <<>>
    /\ threads = NoThreads
    /\ InitWsIdle

Init ==
    /\ InitCache
    /\ InitService
    /\ InitConc
    /\ InitKeyIdle
    /\ InitAssess
    /\ InitEngineIdle

Next ==
    \/ \E k \in Keys : Get(k) /\ UNCHANGED outsideCache
    \/ \E k \in Keys, v \in DirectValues, ttl \in TtlArgs : Set(k, v, ttl) /\ UNCHANGED outsideCache
    \/ \E k \in Keys : Delete(k) /\ UNCHANGED outsideCache
    \/ Clear /\ UNCHANGED outsideCache
    \/ GetStats /\ UNCHANGED outsideCache
    \/ Tick /\ UNCHANGED outsideCache

Spec == Init /\ [][Next]_vars

(***************************************************************************)
(* Properties of InMemoryCache (specification Spec)                        *)
(***************************************************************************)
Size == Cardinality(DOMAIN cache)

\* C1: for max_size >= 1, after any sequence of get, set, delete and clear
\* calls the number of stored entries is at most max_size.
C1_SizeAtMostMaxSize == max_size >= 1 => Size <= max_size

\* C1 witness: a set has just evicted an entry of a full cache of the
\* largest size, and the cache is full again.
C1_Witness ==
    /\ max_size = MaxSizeBound
    /\ lastOp.op = "set"
    /\ lastOp.removed # {}
    /\ Size = max_size

\* The step is a successful set call; k is its key.
SetStep == lastOp'.op = "set" /\ ~lastOp'.raised
SetKey == lastOp'.args[1]
RemovedByStep == DOMAIN cache \ DOMAIN cache'

\* C2 as stated, for every max_size: a set of a key that is not stored into
\* a cache holding max_size entries removes exactly the stored entry whose
\* last successful get or set is the oldest; a set of a stored key removes
\* nothing.
C2_Original ==
    [][SetStep =>
        /\ (SetKey \notin DOMAIN cache /\ Size = max_size)
              => (useOrder # <<>> /\ RemovedByStep = {Head(useOrder)})
        /\ (SetKey \in DOMAIN cache => RemovedByStep = {})]_vars

\* C2 (amended): the same for a cache constructed with max_size >= 1.
C2_EvictsLeastRecentlyUsed ==
    [][(SetStep /\ max_size >= 1) =>
        /\ (SetKey \notin DOMAIN cache /\ Size = max_size)
              => (useOrder # <<>> /\ RemovedByStep = {Head(useOrder)})
        /\ (SetKey \in DOMAIN cache => RemovedByStep = {})]_vars

\* C2 witness: a set of a new key into a full two-entry cache has evicted
\* exactly one entry; the entry that stays was stored at an earlier time.
C2_Witness ==
    /\ max_size = 2
    /\ lastOp.op = "set"
    /\ lastOp.pos = 0
    /\ Cardinality(lastOp.removed) = 1
    /\ Size = 2
    /\ access_order[1] # lastOp.args[1]
    /\ cache[access_order[1]].created_at < now

GetStep == lastOp'.op = "get"
GetKey == lastOp'.args[1]

\* C3: a get on a key whose entry has expired returns a miss and removes
\* the entry from the store and from the LRU order, wherever it stands in
\* that order; later gets on the key miss too, and only a set of the key
\* stores it again.
C3_ExpiredGetRemoves ==
    [][/\ (GetStep /\ GetKey \in DOMAIN cache /\ now > cache[GetKey].expires_at)
            => /\ lastOp'.result = NoneVal
               /\ ~lastOp'.raised
               /\ GetKey \notin DOMAIN cache'
               /\ ~InSeq(access_order', GetKey)
       /\ (GetStep /\ GetKey \notin DOMAIN cache)
            => (lastOp'.result = NoneVal /\ GetKey \notin DOMAIN cache')
       /\ \A k \in Keys :
            (k \notin DOMAIN cache /\ k \in DOMAIN cache')
                => (lastOp'.op = "set" /\ lastOp'.args[1] = k)]_vars

\* C3 witness: a get has removed an expired entry that was the most
\* recently used of two, and the other entry is still stored.
C3_Witness ==
    /\ lastOp.op = "get"
    /\ lastOp.result = NoneVal
    /\ lastOp.removed = {lastOp.args[1]}
    /\ lastOp.pos = 2
    /\ Size = 1

(***************************************************************************)
(* CachingService                                                          *)
(***************************************************************************)
\* ttl_seconds of set_risk_assessment is always an int.
ServiceTtls == {0, 1}

\* get_risk_assessment, line 245: return result
ServiceResult(r) == r.result

\* CachingService.get_risk_assessment: the derived key is looked up, one
\* counter is incremented by the truthiness of the result.  A KeyError of
\* cache.get propagates before any counter changes.
GetRiskAssessment(req) ==
    LET k == KeyOf(req)
        r == CacheGet(cache, access_order, k, now)
    IN  /\ hit_count + miss_count < MaxCount
        /\ cache' = r.cache
        /\ access_order' = r.order
        /\ hit_count' = IF ~r.raised /\ Truthy(r.result) THEN hit_count + 1 ELSE hit_count
        /\ miss_count' = IF ~r.raised /\ ~Truthy(r.result) THEN miss_count + 1 ELSE miss_count
        /\ lastOp' = Op("get_risk_assessment", <<k>>, ServiceResult(r), r.raised, <<>>,
                        cache, cache, 0)
        /\ useOrder' = UseAfter(useOrder,
                                IF Live(cache, k, now) THEN <<k>> ELSE <<>>, r.cache)
        /\ UNCHANGED <<max_size, default_ttl, now, written>>

\* CachingService.set_risk_assessment
SetRiskAssessment(req, v, ttl) ==
    LET k == KeyOf(req)
        r == CacheSet(cache, access_order, k, v, <<ttl>>, now, max_size, default_ttl)
    IN  /\ cache' = r.cache
        /\ access_order' = r.order
        /\ lastOp' = Op("set_risk_assessment", <<k>>, NoneVal, r.raised, <<>>,
                        cache, cache, 0)
        /\ useOrder' = UseAfter(useOrder, IF r.raised THEN <<>> ELSE <<k>>, r.cache)
        /\ written' = [x \in Keys |->
                          IF x = k THEN << [value |-> v, until |-> now + ttl] >>
                          ELSE IF x \in DOMAIN cache \ DOMAIN r.cache THEN <<>>
                          ELSE written[x]]
        /\ UNCHANGED <<max_size, default_ttl, now, hit_count, miss_count>>

\* CachingService.invalidate_location: a no-op (pass).
InvalidateLocation(req) ==
    /\ lastOp' = Op("invalidate_location", <<>>, NoneVal, FALSE, <<>>,
                    cache, cache, 0)
    /\ UNCHANGED <<max_size, default_ttl, cache, access_order, now, useOrder, svcVars>>

\* CachingService.get_stats: the cache's statistics and the counters;
\* hit_rate in percent.
ServiceGetStats ==
    LET r == CacheStats(cache, now, max_size, default_ttl)
        total == hit_count + miss_count
        full == IF r.raised THEN <<>>
                ELSE << [cache_stats |-> r.stats[1],
                         hit_count |-> hit_count,
                         miss_count |-> miss_count,
                         total_requests |-> total,
                         hit_rate |-> IF total > 0 THEN (100 * hit_count) \div total ELSE 0] >>
    IN  /\ lastOp' = Op("service_get_stats", <<>>, NoneVal, r.raised, full, cache, cache, 0)
        /\ UNCHANGED <<max_size, default_ttl, cache, access_order, now, useOrder, svcVars>>

\* CachingService.clear_stats
ClearStats ==
    /\ hit_count' = 0
    /\ miss_count' = 0
    /\ lastOp' = Op("clear_stats", <<>>, NoneVal, FALSE, <<>>, cache, cache, 0)
    /\ UNCHANGED <<max_size, default_ttl, cache, access_order, now, useOrder, written>>

\* service.cache.delete(key) and service.cache.clear() by another caller.
ServiceCacheDelete(k) ==
    /\ Delete(k)
    /\ written' = [written EXCEPT ![k] = <<>>]
    /\ UNCHANGED <<hit_count, miss_count>>

ServiceCacheClear ==
    /\ Clear
    /\ written' = NothingWritten
    /\ UNCHANGED <<hit_count, miss_count>>

\* The requests the service is driven with: two argument lists that derive
\* the same key and one that derives another.
ServiceRequests == {r \in Requests : r.factors = <<>>}
ServiceKeys == {KeyOf(r) : r \in ServiceRequests}

NextService ==
    \/ \E req \in ServiceRequests : GetRiskAssessment(req) /\ UNCHANGED outsideService
    \/ \E req \in ServiceRequests, v \in Values, ttl \in ServiceTtls :
            SetRiskAssessment(req, v, ttl) /\ UNCHANGED outsideService
    \/ \E req \in ServiceRequests : InvalidateLocation(req) /\ UNCHANGED outsideService
    \/ ServiceGetStats /\ UNCHANGED outsideService
    \/ ClearStats /\ UNCHANGED outsideService
    \/ \E k \in ServiceKeys : ServiceCacheDelete(k) /\ UNCHANGED outsideService
    \/ ServiceCacheClear /\ UNCHANGED outsideService
    \/ Tick /\ UNCHANGED <<svcVars, outsideService>>

\* The service's cache is constructed with a positive max_size.
InitServiceSpec == Init /\ max_size >= 1

SpecService == InitServiceSpec /\ [][NextService]_vars

\* C4: a get_risk_assessment returns the value of the last
\* set_risk_assessment on the same derived key, provided that set's TTL has
\* not elapsed and the entry was not deleted, cleared or evicted since.
C4_GetReturnsLastSet ==
    [][lastOp'.op = "get_risk_assessment" =>
        LET k == lastOp'.args[1]
        IN  (written[k] # <<>> /\ now <= written[k][1].until)
                => (~lastOp'.raised /\ lastOp'.result = written[k][1].value)]_vars

\* C4 witness: a lookup made after time has passed returned the empty
\* dict that a second set on the key had stored over another value.
C4_Witness ==
    /\ lastOp.op = "get_risk_assessment"
    /\ lastOp.result = EmptyDict
    /\ written[lastOp.args[1]] # <<>>
    /\ written[lastOp.args[1]][1].until = 1
    /\ cache[lastOp.args[1]].created_at = 0
    /\ now = 1
    /\ miss_count = 1

(***************************************************************************)
(* InMemoryCache under concurrent coroutines.  Every call is               *)
(* "async with self._lock: <body>"; the body is modelled statement by      *)
(* statement, so that what the lock excludes is visible.  The clock does   *)
(* not advance while the lock is held.                                     *)
(***************************************************************************)
ConcKeys == {KeyOf(r) : r \in {q \in Requests : q.factors = <<>>}}
ConcTtls == {<<>>, <<1>>}
ConcOps == {"get", "set", "delete", "clear", "get_stats"}

\* Faulty variant: the lock is taken without waiting for its holder.
LockIgnored(l) == TRUE

\* asyncio.Lock.acquire proceeds only when the lock is not held.
LockFree(l) == l = <<>>

InCriticalSection(p) == co[p].pc \notin {"idle", "acquire", "done"}

\* The call as if run alone on the reference store: the new store, the
\* result and whether it raises.
RunAlone(c, p) ==
    LET k == IF c.key = <<>> THEN <<>> ELSE c.key[1]
    IN  CASE c.op = "get" ->
                LET r == CacheGet(ref.cache, ref.order, k, now)
                IN  [cache |-> r.cache, order |-> r.order,
                     result |-> <<r.result>>, raised |-> r.raised]
          [] c.op = "set" ->
                LET r == CacheSet(ref.cache, ref.order, k, "result", c.ttl, now,
                                  max_size, default_ttl)
                IN  [cache |-> r.cache, order |-> r.order,
                     result |-> <<>>, raised |-> r.raised]
          [] c.op = "delete" ->
                LET r == CacheDelete(ref.cache, ref.order, k)
                IN  [cache |-> r.cache, order |-> r.order,
                     result |-> <<>>, raised |-> FALSE]
          [] c.op = "clear" ->
                [cache |-> EmptyCache, order |-> <<>>, result |-> <<>>, raised |-> FALSE]
          [] OTHER ->
                LET r == CacheStats(ref.cache, now, max_size, default_ttl)
                IN  [cache |-> ref.cache, order |-> ref.order,
                     result |-> IF r.raised THEN <<>>
                                ELSE <<r.stats[1].size, r.stats[1].expired_count>>,
                     raised |-> r.raised]

Goto(p, label) == co' = [co EXCEPT ![p].pc = label]
SharedUnchanged == UNCHANGED <<cache, access_order>>
ConcFrame == UNCHANGED <<max_size, default_ttl, now, lastOp, useOrder, svcVars, otherVars>>

\* A coroutine starts a call.
Call(p, op, k, ttl) ==
    /\ co[p].pc = "idle"
    /\ co' = [co EXCEPT ![p] = [Idle EXCEPT !.pc = "acquire", !.op = op,
                                            !.key = k, !.ttl = ttl]]
    /\ UNCHANGED <<lock, ref>> /\ SharedUnchanged /\ ConcFrame

\* async with self._lock: entry
Acquire(p) ==
    /\ co[p].pc = "acquire"
    /\ LockFree(lock)
    /\ lock' = <<p>>
    /\ LET r == RunAlone(co[p], p)
       IN  /\ ref' = [cache |-> r.cache, order |-> r.order]
           /\ co' = [co EXCEPT ![p].pc = co[p].op, ![p].expect = r.result,
                                ![p].expectRaised = r.raised]
    /\ SharedUnchanged /\ ConcFrame

\* An exception leaves the body; the lock is released by the context manager.
Raise(p) == co' = [co EXCEPT ![p].pc = "release", ![p].raised = TRUE]
Return(p, v) == co' = [co EXCEPT ![p].pc = "release", ![p].result = v]

\* get: "if key not in self._cache: return None", "cached_item = ..."
GetLookup(p) ==
    /\ co[p].pc = "get"
    /\ IF co[p].key[1] \notin DOMAIN cache
       THEN Return(p, <<NoneVal>>)
       ELSE co' = [co EXCEPT ![p].pc = "get_check", ![p].tmp = <<cache[co[p].key[1]]>>]
    /\ UNCHANGED <<lock, ref>> /\ SharedUnchanged /\ ConcFrame

\* get: the expiry test, then "del self._cache[key]" or the first half of
\* the move to the end of the access order.
GetCheck(p) ==
    /\ co[p].pc = "get_check"
    /\ LET k == co[p].key[1]
           item == co[p].tmp[1]
       IN  IF ~WellFormed(item)
           THEN Raise(p) /\ SharedUnchanged
           ELSE IF now > item.expires_at
           THEN IF k \in DOMAIN cache
                THEN /\ cache' = Drop(cache, k)
                     /\ Goto(p, "get_expired")
                     /\ UNCHANGED access_order
                ELSE Raise(p) /\ SharedUnchanged
           ELSE /\ access_order' = IF InSeq(access_order, k)
                                   THEN RemoveFirst(access_order, k) ELSE access_order
                /\ Goto(p, "get_append")
                /\ UNCHANGED cache
    /\ UNCHANGED <<lock, ref>> /\ ConcFrame

\* get: removal of the expired key from the access order, "return None"
GetExpired(p) ==
    /\ co[p].pc = "get_expired"
    /\ access_order' = IF InSeq(access_order, co[p].key[1])
                       THEN RemoveFirst(access_order, co[p].key[1]) ELSE access_order
    /\ Return(p, <<NoneVal>>)
    /\ UNCHANGED <<lock, ref, cache>> /\ ConcFrame

\* get: "self._access_order.append(key)", "return cached_item['value']"
GetAppend(p) ==
    /\ co[p].pc = "get_append"
    /\ access_order' = Append(access_order, co[p].key[1])
    /\ Return(p, <<co[p].tmp[1].value>>)
    /\ UNCHANGED <<lock, ref, cache>> /\ ConcFrame

\* set: ttl and expires_at, the capacity test, "lru_key = pop(0)"
SetPop(p) ==
    /\ co[p].pc = "set"
    /\ LET k == co[p].key[1]
           item == [value |-> "result",
                    expires_at |-> ExpiresAt(now, co[p].ttl, default_ttl),
                    created_at |-> now]
       IN  IF EvictNeeded(cache, k, max_size) /\ access_order # <<>>
           THEN /\ access_order' = PopLru(access_order).rest
                /\ co' = [co EXCEPT ![p].pc = "set_del",
                                     ![p].tmp = <<item, PopLru(access_order).key>>]
           ELSE /\ co' = [co EXCEPT ![p].pc = "set_store", ![p].tmp = <<item>>]
                /\ UNCHANGED access_order
    /\ UNCHANGED <<lock, ref, cache>> /\ ConcFrame

\* set: "del self._cache[lru_key]"
SetDel(p) ==
    /\ co[p].pc = "set_del"
    /\ IF co[p].tmp[2] \in DOMAIN cache
       THEN cache' = Drop(cache, co[p].tmp[2]) /\ Goto(p, "set_store")
       ELSE Raise(p) /\ UNCHANGED cache
    /\ UNCHANGED <<lock, ref, access_order>> /\ ConcFrame

\* set: "self._cache[key] = {...}"
SetStore(p) ==
    /\ co[p].pc = "set_store"
    /\ cache' = Put(cache, co[p].key[1], co[p].tmp[1])
    /\ Goto(p, "set_remove")
    /\ UNCHANGED <<lock, ref, access_order>> /\ ConcFrame

\* set: "if key in self._access_order: remove(key)"
SetRemove(p) ==
    /\ co[p].pc = "set_remove"
    /\ access_order' = IF InSeq(access_order, co[p].key[1])
                       THEN RemoveFirst(access_order, co[p].key[1]) ELSE access_order
    /\ Goto(p, "set_append")
    /\ UNCHANGED <<lock, ref, cache>> /\ ConcFrame

\* set: "self._access_order.append(key)"
SetAppend(p) ==
    /\ co[p].pc = "set_append"
    /\ access_order' = Append(access_order, co[p].key[1])
    /\ Return(p, <<>>)
    /\ UNCHANGED <<lock, ref, cache>> /\ ConcFrame

\* delete: "if key in self._cache: del self._cache[key]"
DeleteEntry(p) ==
    /\ co[p].pc = "delete"
    /\ cache' = IF co[p].key[1] \in DOMAIN cache THEN Drop(cache, co[p].key[1]) ELSE cache
    /\ Goto(p, "delete_order")
    /\ UNCHANGED <<lock, ref, access_order>> /\ ConcFrame

\* delete: "if key in self._access_order: remove(key)"
DeleteOrder(p) ==
    /\ co[p].pc = "delete_order"
    /\ access_order' = IF InSeq(access_order, co[p].key[1])
                       THEN RemoveFirst(access_order, co[p].key[1]) ELSE access_order
    /\ Return(p, <<>>)
    /\ UNCHANGED <<lock, ref, cache>> /\ ConcFrame

\* clear: "self._cache.clear()"
ClearEntries(p) ==
    /\ co[p].pc = "clear"
    /\ cache' = EmptyCache
    /\ Goto(p, "clear_order")
    /\ UNCHANGED <<lock, ref, access_order>> /\ ConcFrame

\* clear: "self._access_order.clear()"
ClearOrder(p) ==
    /\ co[p].pc = "clear_order"
    /\ access_order' = <<>>
    /\ Return(p, <<>>)
    /\ UNCHANGED <<lock, ref, cache>> /\ ConcFrame

\* get_stats: expired_count = sum(...)
StatsCount(p) ==
    /\ co[p].pc = "get_stats"
    /\ IF \E k \in DOMAIN cache : ~WellFormed(cache[k])
       THEN Raise(p)
       ELSE co' = [co EXCEPT ![p].pc = "get_stats_return",
                            ![p].tmp = <<Cardinality({k \in DOMAIN cache :
                                                        now > cache[k].expires_at})>>]
    /\ UNCHANGED <<lock, ref>> /\ SharedUnchanged /\ ConcFrame

\* get_stats: the returned dict reads len(self._cache) and divides by max_size
StatsReturn(p) ==
    /\ co[p].pc = "get_stats_return"
    /\ IF max_size = 0
       THEN Raise(p)
       ELSE Return(p, <<Cardinality(DOMAIN cache), co[p].tmp[1]>>)
    /\ UNCHANGED <<lock, ref>> /\ SharedUnchanged /\ ConcFrame

\* async with self._lock: exit
Release(p) ==
    /\ co[p].pc = "release"
    /\ lock' = <<>>
    /\ Goto(p, "done")
    /\ UNCHANGED ref /\ SharedUnchanged /\ ConcFrame

\* The caller takes the result.
Finish(p) ==
    /\ co[p].pc = "done"
    /\ co' = [co EXCEPT ![p] = Idle]
    /\ UNCHANGED <<lock, ref>> /\ SharedUnchanged /\ ConcFrame

\* Time passes while no call is inside its critical section.
TickConc ==
    /\ lock = <<>>
    /\ Tick
    /\ UNCHANGED outsideCache

NextConc ==
    \/ \E p \in Coroutines, k \in ConcKeys : Call(p, "get", <<k>>, <<>>)
    \/ \E p \in Coroutines, k \in ConcKeys, ttl \in ConcTtls : Call(p, "set", <<k>>, ttl)
    \/ \E p \in Coroutines, k \in ConcKeys : Call(p, "delete", <<k>>, <<>>)
    \/ \E p \in Coroutines : Call(p, "clear", <<>>, <<>>)
    \/ \E p \in Coroutines : Call(p, "get_stats", <<>>, <<>>)
    \/ \E p \in Coroutines : Acquire(p)
    \/ \E p \in Coroutines : GetLookup(p)
    \/ \E p \in Coroutines : GetCheck(p)
    \/ \E p \in Coroutines : GetExpired(p)
    \/ \E p \in Coroutines : GetAppend(p)
    \/ \E p \in Coroutines : SetPop(p)
    \/ \E p \in Coroutines : SetDel(p)
    \/ \E p \in Coroutines : SetStore(p)
    \/ \E p \in Coroutines : SetRemove(p)
    \/ \E p \in Coroutines : SetAppend(p)
    \/ \E p \in Coroutines : DeleteEntry(p)
    \/ \E p \in Coroutines : DeleteOrder(p)
    \/ \E p \in Coroutines : ClearEntries(p)
    \/ \E p \in Coroutines : ClearOrder(p)
    \/ \E p \in Coroutines : StatsCount(p)
    \/ \E p \in Coroutines : StatsReturn(p)
    \/ \E p \in Coroutines : Release(p)
    \/ \E p \in Coroutines : Finish(p)
    \/ TickConc

SpecConc == Init /\ [][NextConc]_vars

\* C5: at most one call is inside its critical section; whenever the lock
\* is free the store and the LRU order are what the calls made so far
\* produce when run one after another in the order they took the lock
\* (so none of them saw a partial update); and every finished call returned
\* what it returns in that sequential run.
C5_CallsAreSerialized ==
    /\ Cardinality({p \in Coroutines : InCriticalSection(p)}) <= 1
    /\ \A p \in Coroutines : InCriticalSection(p) => lock = <<p>>
    /\ lock = <<>> => (cache = ref.cache /\ access_order = ref.order)
    /\ \A p \in Coroutines :
          co[p].pc = "done" =>
              /\ co[p].raised = co[p].expectRaised
              /\ co[p].raised \/ co[p].result = co[p].expect

\* C5 witness: one coroutine is in the middle of a set that has popped the
\* LRU key but not yet deleted its entry, while the other waits for the lock.
C5_Witness ==
    \E p, q \in Coroutines :
        /\ p # q
        /\ co[p].pc = "set_del"
        /\ co[q].pc = "acquire"
        /\ co[q].op = "get"
        /\ Cardinality(DOMAIN cache) # Len(access_order)

(***************************************************************************)
(* InMemoryCache with a cache-layer fault: a stored entry loses its        *)
(* 'expires_at' field.                                                     *)
(***************************************************************************)
CorruptEntry(k) ==
    /\ k \in DOMAIN cache
    /\ WellFormed(cache[k])
    /\ cache' = [cache EXCEPT ![k] = [value |-> cache[k].value,
                                      created_at |-> cache[k].created_at]]
    /\ lastOp' = Op("fault", <<k>>, NoneVal, FALSE, <<>>, cache, cache, 0)
    /\ UNCHANGED <<max_size, default_ttl, access_order, now, useOrder>>

NextFault ==
    \/ Next
    \/ \E k \in Keys : CorruptEntry(k) /\ UNCHANGED outsideCache

SpecFault == Init /\ [][NextFault]_vars

\* C6: no cache operation raises to its caller; in particular a get on a
\* corrupted entry is reported as a miss.
C6_NoOperationRaises == ~lastOp.raised

\* C6, the corrupted entry alone: a get on a stored entry that lacks its
\* expiry field returns a miss without raising.
C6_CorruptedGetIsMiss ==
    [][(GetStep /\ GetKey \in DOMAIN cache /\ ~WellFormed(cache[GetKey]))
          => (~lastOp'.raised /\ lastOp'.result = NoneVal)]_vars

(***************************************************************************)
(* CacheKey.risk_assessment applied to pairs of argument lists.            *)
(***************************************************************************)
MaxCoord == 6       \* coordinates are drawn from -MaxCoord..MaxCoord
MaxHazards == 2     \* length of the hazard-type lists

\* Coordinates in units of 0.00001 degree.  Values halfway between two
\* multiples of 0.0001 are left out: round() decides them by the binary
\* value of the float.
CoordInputs == {c \in (0 - MaxCoord)..MaxCoord : c % 10 # 5}

\* The longitudes the latitudes are paired with.
LonInputs == {-6, -4, -1, 3, 6}

RECURSIVE SeqsUpTo(_, _)
SeqsUpTo(S, n) ==
    IF n = 0 THEN {<<>>}
    ELSE LET shorter == SeqsUpTo(S, n - 1)
         IN  shorter \cup {Append(q, x) : q \in shorter, x \in S}

HazardLists == SeqsUpTo({"flood", "earthquake"}, MaxHazards)

\* risk_factors dicts, as the sequence of their items in insertion order.
FactorItems == {<<"population_density", 1>>, <<"building_code_rating", 2>>}
FactorDicts ==
    {fs \in SeqsUpTo(FactorItems, 2) :
        \A i, j \in 1..Len(fs) : i # j => fs[i][1] # fs[j][1]}

\* Pairs of argument lists: either the coordinates are shared and the lists
\* vary, or the lists are shared and the coordinates vary.
KeyArgPairs ==
    {<<[lat |-> c[1], lon |-> c[2], hazards |-> h1, factors |-> f1],
       [lat |-> c[1], lon |-> c[2], hazards |-> h2, factors |-> f2]>> :
        c \in {<<-3, 4>>},
        h1 \in HazardLists, h2 \in HazardLists,
        f1 \in FactorDicts, f2 \in FactorDicts}
    \cup
    {<<[lat |-> a1, lon |-> o1, hazards |-> r.hazards, factors |-> r.factors],
       [lat |-> a2, lon |-> o2, hazards |-> r.hazards, factors |-> r.factors]>> :
        a1 \in CoordInputs, a2 \in CoordInputs,
        o1 \in LonInputs, o2 \in LonInputs,
        r \in {q \in Requests : q.lat = 16 /\ q.factors # <<>>}}

InitKeySpec ==
    /\ InitCache /\ max_size = 1
    /\ InitService
    /\ InitConc
    /\ InitAssess
    /\ InitEngineIdle
    /\ keyArgs \in KeyArgPairs
    /\ keyOut = NoKeys

\* key = CacheKey.risk_assessment(latitude, longitude, hazard_types, risk_factors)
DeriveKey(i) ==
    /\ keyOut[i] = <<>>
    /\ keyOut' = [keyOut EXCEPT ![i] = << KeyOf(keyArgs[i]) >>]
    /\ UNCHANGED <<keyArgs, cacheVars, svcVars, concVars, assessVars, engineVars, wsVars>>

NextKey == \E i \in {1, 2} : DeriveKey(i)

SpecKey == InitKeySpec /\ [][NextKey]_vars

BothKeysDerived == keyOut[1] # <<>> /\ keyOut[2] # <<>>

Occurrences(q, x) == Cardinality({i \in 1..Len(q) : q[i] = x})
Elements(q) == {q[i] : i \in 1..Len(q)}
IsReordering(q1, q2) ==
    /\ Len(q1) = Len(q2)
    /\ \A x \in Elements(q1) \cup Elements(q2) : Occurrences(q1, x) = Occurrences(q2, x)

\* C8: for fixed coordinates, a reordering of the hazard-type list and a
\* reordering of the entries of the custom-factor map derive the same key.
C8_KeyIsOrderIndependent ==
    (/\ BothKeysDerived
     /\ keyArgs[1].lat = keyArgs[2].lat
     /\ keyArgs[1].lon = keyArgs[2].lon
     /\ IsReordering(keyArgs[1].hazards, keyArgs[2].hazards)
     /\ IsReordering(keyArgs[1].factors, keyArgs[2].factors))
        => keyOut[1] = keyOut[2]

\* C8 witness: two keys derived from hazard lists and factor maps that are
\* written in different orders.
C8_Witness ==
    /\ BothKeysDerived
    /\ keyArgs[1].lat = keyArgs[2].lat
    /\ keyArgs[1].lon = keyArgs[2].lon
    /\ keyArgs[1].hazards # keyArgs[2].hazards
    /\ IsReordering(keyArgs[1].hazards, keyArgs[2].hazards)
    /\ keyArgs[1].factors # keyArgs[2].factors
    /\ IsReordering(keyArgs[1].factors, keyArgs[2].factors)
    /\ keyOut[1] = keyOut[2]

SameLists ==
    /\ keyArgs[1].hazards = keyArgs[2].hazards
    /\ keyArgs[1].factors = keyArgs[2].factors

\* The multiples of 0.0001 a coordinate of the model can be nearest to.
GridPoints == {10 * g : g \in (0 - MaxCoord)..MaxCoord}

\* c lies strictly less than 0.00005 away from the multiple g of 0.0001.
Near(c, g) == Abs(c - g) < 5

NearSameGridPoint(c1, c2) ==
    /\ \E g \in GridPoints : Near(c1, g) /\ Near(c2, g)
    /\ (c1 < 0) = (c2 < 0)

NearDifferentGridPoints(c1, c2) ==
    \E g1, g2 \in GridPoints : g1 # g2 /\ Near(c1, g1) /\ Near(c2, g2)

\* Coordinates whose values rounded to 4 decimals differ derive different
\* keys.
RoundedApartKeysDiffer ==
    (/\ BothKeysDerived
     /\ SameLists
     /\ \/ NearDifferentGridPoints(keyArgs[1].lat, keyArgs[2].lat)
        \/ NearDifferentGridPoints(keyArgs[1].lon, keyArgs[2].lon))
        => keyOut[1] # keyOut[2]

MaxLocations == 3   \* rows of table locations
MaxRows == 4        \* rows of table risk_assessments

\* Table hazards: the hazard types that have a row (hazard_type is unique).
DbHazards == {"earthquake", "flood"}

\* RiskAssessmentRequest: location_id is <<>> for None, location is <<>>
\* or the LocationCreate data, hazard_types has at least one item.
AssessRequests ==
    {[location_id |-> <<1>>, location |-> <<>>,
      hazard_types |-> <<"flood", "earthquake">>, risk_factors |-> <<>>],
     [location_id |-> <<1>>, location |-> <<>>,
      hazard_types |-> <<"earthquake">>,
      risk_factors |-> << <<"population_density", 1>> >>],
     [location_id |-> <<>>, location |-> << [latitude |-> 16, longitude |-> 0] >>,
      hazard_types |-> <<"flood">>, risk_factors |-> <<>>],
     [location_id |-> <<>>, location |-> << [latitude |-> 16, longitude |-> 0] >>,
      hazard_types |-> <<"fire">>, risk_factors |-> <<>>],
     [location_id |-> <<9>>, location |-> <<>>,
      hazard_types |-> <<"flood">>, risk_factors |-> <<>>],
     [location_id |-> <<1>>, location |-> <<>>,
      hazard_types |-> <<"flood", "flood">>, risk_factors |-> <<>>],
     [location_id |-> <<>>, location |-> <<>>,
      hazard_types |-> <<"flood">>, risk_factors |-> <<>>]}

\* select(Hazard).where(Hazard.hazard_type.in_(request.hazard_types))
SelectHazards(hazard_types) == {h \in DbHazards : InSeq(hazard_types, h)}

\* The identical request was answered with 200 at most a default TTL ago.
AnsweredWithinTtl(req) ==
    \E a \in answered : a.request = req /\ now <= a.at + DefaultTtlUnits

\* assess_risk: the response status, the number of calculate_risk calls and
\* the rows the committed session leaves.  The handler makes no call on the
\* caching service.
AssessRisk(req) ==
    LET byId == req.location_id # <<>>
        found == byId /\ req.location_id[1] \in 1..Len(locations)
        inline == ~byId /\ req.location # <<>>
        hazards == SelectHazards(req.hazard_types)
        status ==
            IF byId /\ ~found THEN 404
            ELSE IF ~byId /\ ~inline THEN 400
            ELSE IF Cardinality(hazards) # Len(req.hazard_types) THEN 404
            ELSE 200
        scored == IF status = 200 THEN Cardinality(hazards) ELSE 0
    IN  /\ inline => Len(locations) < MaxLocations
        /\ assessment_rows + scored <= MaxRows
        /\ locations' = IF status = 200 /\ inline
                        THEN Append(locations, req.location[1])
                        ELSE locations
        /\ assessment_rows' = assessment_rows + scored
        /\ answered' = IF status = 200
                       THEN {a \in answered : a.request # req}
                                \cup {[request |-> req, at |-> now]}
                       ELSE answered
        /\ lastAssess' = [request |-> <<req>>, status |-> status, scored |-> scored,
                          repeat |-> AnsweredWithinTtl(req)]
        /\ UNCHANGED <<cacheVars, svcVars, concVars, keyVars, engineVars, wsVars>>

\* time.time() advances between requests.
TickAssess ==
    /\ now < MaxTime
    /\ now' = now + 1
    /\ UNCHANGED <<max_size, default_ttl, cache, access_order, lastOp, useOrder>>
    /\ UNCHANGED <<svcVars, concVars, otherVars>>

NextAssess ==
    \/ \E req \in AssessRequests : AssessRisk(req)
    \/ TickAssess

SpecAssess == Init /\ [][NextAssess]_vars

\* C7: a repeated identical request within the TTL is answered from the
\* cache without scoring again.
C7_RepeatIsNotScoredAgain ==
    (lastAssess.status = 200 /\ lastAssess.repeat) => lastAssess.scored = 0

\* C7, the write-back: after a 200 response the cache holds an entry under
\* the key derived from the request.
C7_ResultIsWrittenBack ==
    lastAssess.status = 200 => cache # EmptyCache

(***************************************************************************)
(* RiskEngine (app/services/risk_engine.py): the four hazard scorers.      *)
(*                                                                         *)
(* Fixed point.  Scores are carried in thousandths of a point              *)
(* (100000 = 100.0) until round(final_risk, 2) turns them into hundredths; *)
(* factors, weights and math.exp values are in thousandths; distances and  *)
(* radii are in metres; severities, intensities and ratings are the        *)
(* integer steps of their 0-10 scales.  Every quotient is truncated where  *)
(* the float computation keeps the fraction.                               *)
(***************************************************************************)
MaxSources == 2     \* length of the hazard-source lists
MaxEvents == 2      \* length of the historical-event lists
MaxCacheSize == 1   \* proximity_cache_size is drawn from 0..MaxCacheSize

\* AssessmentConfig defaults, in thousandths.
Config ==
    [seismic_weight_fault_proximity |-> 400,
     seismic_weight_historical |-> 250,
     seismic_weight_magnitude |-> 350,
     flood_weight_elevation |-> 350,
     flood_weight_water_proximity |-> 300,
     flood_weight_historical |-> 200,
     flood_weight_drainage |-> 150,
     fire_weight_vegetation |-> 350,
     fire_weight_climate |-> 250,
     fire_weight_historical |-> 200,
     fire_weight_proximity |-> 200,
     storm_weight_historical_patterns |-> 400,
     storm_weight_geographic_exposure |-> 300,
     storm_weight_seasonal_factors |-> 300]

\* The largest r with r * r <= n.
RECURSIVE ISqrtBetween(_, _, _)
ISqrtBetween(n, lo, hi) ==
    IF lo >= hi THEN lo
    ELSE LET mid == (lo + hi + 1) \div 2
         IN  IF mid * mid <= n THEN ISqrtBetween(n, mid, hi)
             ELSE ISqrtBetween(n, lo, mid - 1)

\* x ** 0.5 for x in thousandths
SqrtMilli(x) == ISqrtBetween(x * 1000, 0, 46340)

\* x ** 1.5 for x in thousandths
PowThreeHalves(x) == (x * SqrtMilli(x)) \div 1000

\* The series of e^x for 0 <= x <= 5.0, x in thousandths.
RECURSIVE ExpSeries(_, _, _, _)
ExpSeries(x, n, term, acc) ==
    IF term = 0 THEN acc
    ELSE ExpSeries(x, n + 1, (term * x) \div (1000 * n), acc + term)

ExpPos(x) == ExpSeries(x, 1, 1000, 0)

\* e^(-x) for x >= 0
RECURSIVE ExpNeg(_)
ExpNeg(x) ==
    IF x <= 5000 THEN 1000000 \div ExpPos(x)
    ELSE (ExpNeg(5000) * ExpNeg(x - 5000)) \div 1000

\* math.exp(x), argument and value in thousandths
MathExp(x) == IF x >= 0 THEN ExpPos(x) ELSE ExpNeg(0 - x)

\* round(x, 2) of a value in thousandths, in hundredths
Round2(x) ==
    LET a == Abs(x)
        q == a \div 10
        r == a % 10
        m == IF r < 5 THEN q
             ELSE IF r > 5 THEN q + 1
             ELSE IF q % 2 = 0 THEN q ELSE q + 1
    IN  IF x < 0 THEN 0 - m ELSE m

\* GeographicPoint.__post_init__
ValidPoint(p) ==
    /\ -90 <= p.latitude /\ p.latitude <= 90
    /\ -180 <= p.longitude /\ p.longitude <= 180

\* The Haversine formula for two points of one meridian, where it is
\* 6371 km times the latitude difference in radians: 111.195 km a degree.
Haversine(point1, point2) == 111195 * Abs(point1.latitude - point2.latitude)

\* Faulty variant: a cache hit does not give back the distance that was
\* computed.
CachedDistanceLost(point1, point2, dc, size) ==
    LET cache_key == <<point1.latitude, point1.longitude,
                       point2.latitude, point2.longitude>>
        km == Haversine(point1, point2)
    IN  IF cache_key \in DOMAIN dc THEN [km |-> 0, cache |-> dc]
        ELSE [km |-> km,
              cache |-> IF Cardinality(DOMAIN dc) < size THEN Put(dc, cache_key, km)
                        ELSE dc]

\* Faulty variant: the size check lets one entry too many in.
DistanceCachedWhenFull(point1, point2, dc, size) ==
    LET cache_key == <<point1.latitude, point1.longitude,
                       point2.latitude, point2.longitude>>
        km == Haversine(point1, point2)
    IN  IF cache_key \in DOMAIN dc THEN [km |-> dc[cache_key], cache |-> dc]
        ELSE [km |-> km,
              cache |-> IF Cardinality(DOMAIN dc) <= size THEN Put(dc, cache_key, km)
                        ELSE dc]

\* calculate_distance_km: the distance and the distance cache it leaves.
CalculateDistanceKm(point1, point2, dc, size) ==
    LET cache_key == <<point1.latitude, point1.longitude,
                       point2.latitude, point2.longitude>>
        km == Haversine(point1, point2)
    IN  IF cache_key \in DOMAIN dc THEN [km |-> dc[cache_key], cache |-> dc]
        ELSE [km |-> km,
              cache |-> IF Cardinality(DOMAIN dc) < size THEN Put(dc, cache_key, km)
                        ELSE dc]

\* calculate_proximity_impact, in thousandths
CalculateProximityImpact(distance_km, max_distance_km, decay_model) ==
    IF distance_km >= max_distance_km THEN 0
    ELSE LET normalized == (1000 * distance_km) \div max_distance_km
         IN  CASE decay_model = "linear" -> 1000 - normalized
               [] decay_model = "exponential" -> MathExp(0 - 3 * normalized)
               [] decay_model = "inverse_square" ->
                    IF distance_km < 1000 THEN 1000
                    ELSE Max(0, 1000 - (normalized * normalized) \div 1000)
               [] OTHER -> 1000 - normalized

\* _calculate_historical_weighting, lines 770-782: the two sums
RECURSIVE WeightedSums(_)
WeightedSums(events) ==
    IF events = <<>> THEN [weighted_sum |-> 0, total_weight |-> 0]
    ELSE LET prev == WeightedSums(SubSeq(events, 1, Len(events) - 1))
             event == events[Len(events)]
             years_ago == (1000 * event.days_ago) \div 365
             time_weight == MathExp(0 - (years_ago \div 10))
             severity_score == event.severity * 10000
         IN  [weighted_sum |-> prev.weighted_sum + severity_score * time_weight,
              total_weight |-> prev.total_weight + time_weight]

\* frequency_boost = min(len(events) / 10, 0.2)
FrequencyBoost(events) == Min(Len(events) * 100, 200)

\* _calculate_historical_weighting
HistoricalWeighting(events) ==
    IF events = <<>> THEN 0
    ELSE LET sums == WeightedSums(events)
         IN  IF sums.total_weight = 0 THEN 0
             ELSE LET weighted_score == sums.weighted_sum \div sums.total_weight
                  IN  Min((weighted_score * (1000 + FrequencyBoost(events))) \div 1000,
                          100000)

\* Faulty variant: the final score is returned as computed.
Unclamped(final_risk) == final_risk

\* final_risk = max(0, min(100, final_risk))
Clamp(final_risk) == Max(0, Min(100000, final_risk))

\* calculate_seismic_risk, lines 261-268: the nearest fault, the first one
\* on equal distances
RECURSIVE NearestFault(_, _, _, _)
NearestFault(location, fault_lines, dc, size) ==
    IF fault_lines = <<>> THEN [min_distance |-> <<>>, intensity |-> 0, cache |-> dc]
    ELSE LET prev == NearestFault(location,
                                  SubSeq(fault_lines, 1, Len(fault_lines) - 1), dc, size)
             fault == fault_lines[Len(fault_lines)]
             d == CalculateDistanceKm(location, fault.location, prev.cache, size)
         IN  IF prev.min_distance = <<>> \/ d.km < prev.min_distance[1]
             THEN [min_distance |-> <<d.km>>, intensity |-> fault.intensity,
                   cache |-> d.cache]
             ELSE [prev EXCEPT !.cache = d.cache]

RECURSIVE MaxIntensity(_)
MaxIntensity(sources) ==
    IF Len(sources) = 1 THEN sources[1].intensity
    ELSE Max(sources[Len(sources)].intensity,
             MaxIntensity(SubSeq(sources, 1, Len(sources) - 1)))

\* The loops of calculate_flood_risk and calculate_wildfire_risk over the
\* sources: max(proximity_impacts), in thousandths
RECURSIVE MaxWeightedImpact(_, _, _, _)
MaxWeightedImpact(location, sources, dc, size) ==
    LET source == sources[Len(sources)]
        prev == IF Len(sources) = 1 THEN [max |-> <<>>, cache |-> dc]
                ELSE MaxWeightedImpact(location,
                                       SubSeq(sources, 1, Len(sources) - 1), dc, size)
        d == CalculateDistanceKm(location, source.location, prev.cache, size)
        impact == CalculateProximityImpact(d.km, source.influence_radius_km,
                                           "exponential")
        weighted_impact == (impact * source.intensity) \div 10
    IN  [max |-> IF prev.max = <<>> THEN <<weighted_impact>>
                 ELSE << Max(prev.max[1], weighted_impact) >>,
         cache |-> d.cache]

\* What a scorer returns: (round(final_risk, 2), breakdown), and the
\* distance cache it leaves.
Returned(final_risk, breakdown, dc) ==
    [raised |-> FALSE, score |-> <<Round2(final_risk)>>,
     breakdown |-> <<breakdown>>, cache |-> dc]

\* A scorer that raised: nothing is returned.
Raised(dc) == [raised |-> TRUE, score |-> <<>>, breakdown |-> <<>>, cache |-> dc]

\* Faulty variant: the building code rating mitigates nothing.
MitigationIgnored(building_code_rating) == 1000

\* line 305: 1.0 - (building_code_rating / 20), in thousandths
MitigationFactor(building_code_rating) == 1000 - building_code_rating * 50

\* calculate_seismic_risk; elapsed is (time.time() - start_time) * 1000
CalculateSeismicRisk(location, fault_lines, historical_events, soil_amplification, building_code_rating, dc, size, elapsed) ==
    LET near == NearestFault(location, fault_lines, dc, size)
        proximity_factor ==
            CalculateProximityImpact(near.min_distance[1],
                                     fault_lines[1].influence_radius_km, "exponential")
        fault_proximity_score ==
            IF fault_lines # <<>> THEN proximity_factor * near.intensity * 10 ELSE 0
        historical_score == HistoricalWeighting(historical_events)
        magnitude_score ==
            IF fault_lines # <<>>
            THEN PowThreeHalves(MaxIntensity(fault_lines) * 100) * 100
            ELSE 0
        amplified ==
            [fault_proximity_score |-> (fault_proximity_score * soil_amplification) \div 1000,
             historical_score |-> (historical_score * soil_amplification) \div 1000,
             magnitude_score |-> (magnitude_score * soil_amplification) \div 1000]
        base_risk ==
            (amplified.fault_proximity_score * Config.seismic_weight_fault_proximity
             + amplified.historical_score * Config.seismic_weight_historical
             + amplified.magnitude_score * Config.seismic_weight_magnitude) \div 1000
        mitigation_factor == MitigationFactor(building_code_rating)
        final_risk == Clamp((base_risk * mitigation_factor) \div 1000)
    IN  Returned(final_risk,
                 [fault_proximity_score |-> amplified.fault_proximity_score,
                  historical_score |-> amplified.historical_score,
                  magnitude_score |-> amplified.magnitude_score,
                  soil_amplification |-> soil_amplification,
                  building_code_mitigation |-> 1000 - mitigation_factor,
                  calculation_time_ms |-> elapsed],
                 near.cache)

\* calculate_flood_risk
CalculateFloodRisk(location, elevation_meters, water_bodies, historical_events, drainage_quality, annual_rainfall_mm, dc, size, elapsed) ==
    LET elevation_score == 100 * MathExp((0 - 1000 * elevation_meters) \div 30)
        impacts == MaxWeightedImpact(location, water_bodies, dc, size)
        water_proximity_score == IF water_bodies # <<>> THEN impacts.max[1] * 100 ELSE 0
        historical_score == HistoricalWeighting(historical_events)
        drainage_score == (10 - drainage_quality) * 10000
        rainfall_factor == Min((1000 * annual_rainfall_mm) \div 5000, 1000)
        base_risk ==
            (elevation_score * Config.flood_weight_elevation
             + water_proximity_score * Config.flood_weight_water_proximity
             + historical_score * Config.flood_weight_historical
             + drainage_score * Config.flood_weight_drainage) \div 1000
        final_risk == Clamp((base_risk * (500 + rainfall_factor \div 2)) \div 1000)
    IN  Returned(final_risk,
                 [elevation_score |-> Round2(elevation_score),
                  water_proximity_score |-> Round2(water_proximity_score),
                  historical_score |-> Round2(historical_score),
                  drainage_score |-> Round2(drainage_score),
                  rainfall_factor |-> Round2(rainfall_factor),
                  calculation_time_ms |-> elapsed],
                 IF water_bodies # <<>> THEN impacts.cache ELSE dc)

\* calculate_wildfire_risk
CalculateWildfireRisk(location, vegetation_density, climate_aridity_index, historical_events, fire_sources, temperature_avg_c, wind_speed_kmh, dc, size, elapsed) ==
    LET vegetation_score == vegetation_density * 10000
        climate_score == climate_aridity_index * 10000
        temp_factor == 1000 + Max(0, ((temperature_avg_c - 20) * 1000) \div 20)
        wind_factor == 1000 + Min((wind_speed_kmh * 1000) \div 100, 1000)
        impacts == MaxWeightedImpact(location, fire_sources, dc, size)
        proximity_score == IF fire_sources # <<>> THEN impacts.max[1] * 100 ELSE 0
        historical_score == HistoricalWeighting(historical_events)
        base_risk ==
            (vegetation_score * Config.fire_weight_vegetation
             + climate_score * Config.fire_weight_climate
             + historical_score * Config.fire_weight_historical
             + proximity_score * Config.fire_weight_proximity) \div 1000
        final_risk ==
            Clamp((((base_risk * temp_factor) \div 1000) * wind_factor) \div 1000)
    IN  Returned(final_risk,
                 [vegetation_score |-> Round2(vegetation_score),
                  climate_score |-> Round2(climate_score),
                  proximity_score |-> Round2(proximity_score),
                  historical_score |-> Round2(historical_score),
                  temperature_factor |-> Round2(temp_factor),
                  wind_factor |-> Round2(wind_factor),
                  calculation_time_ms |-> elapsed],
                 IF fire_sources # <<>> THEN impacts.cache ELSE dc)

RECURSIVE SumSeverity(_)
SumSeverity(events) ==
    IF events = <<>> THEN 0
    ELSE events[Len(events)].severity + SumSeverity(SubSeq(events, 1, Len(events) - 1))

RECURSIVE MaxDaysAgo(_)
MaxDaysAgo(events) ==
    IF Len(events) = 1 THEN events[1].days_ago
    ELSE Max(events[Len(events)].days_ago,
             MaxDaysAgo(SubSeq(events, 1, Len(events) - 1)))

\* seasonal_weights, line 611
SeasonalWeights == <<300, 400, 700, 800, 900, 1000, 900, 900, 1000, 900, 700, 400>>

\* calculate_storm_risk, lines 591-606: the historical score raised to the
\* severity and frequency of the events
StormHistoricalScore(historical_events) ==
    LET historical_score == HistoricalWeighting(historical_events)
        avg_severity == (1000 * SumSeverity(historical_events)) \div Len(historical_events)
        severity_factor == avg_severity \div 10
        years_span == Max((1000 * MaxDaysAgo(historical_events)) \div 365, 1000)
        frequency == (1000000 * Len(historical_events)) \div years_span
        frequency_factor == Min(frequency \div 5, 1000)
    IN  IF historical_events # <<>>
        THEN Max(historical_score, severity_factor * 50 + frequency_factor * 50)
        ELSE historical_score

\* calculate_storm_risk; seasonal_weights[current_season_index] raises
\* IndexError outside -12..11 and counts from the end below 0.
CalculateStormRisk(location, historical_events, coastal_distance_km, elevation_meters, current_season_index, geographic_exposure, dc, size, elapsed) ==
    LET historical_score == StormHistoricalScore(historical_events)
        seasonal_factor ==
            SeasonalWeights[IF current_season_index >= 0 THEN current_season_index + 1
                            ELSE current_season_index + 13]
        exposure_score == geographic_exposure * 10000
        coastal_factor == 1000 + MathExp((0 - 1000 * coastal_distance_km) \div 50)
        elevation_factor == 1000 + Max(0, ((20 - elevation_meters) * 1000) \div 20)
        base_risk ==
            (historical_score * Config.storm_weight_historical_patterns
             + exposure_score * Config.storm_weight_geographic_exposure
             + (seasonal_factor * 100) * Config.storm_weight_seasonal_factors) \div 1000
        final_risk ==
            Clamp((((base_risk * coastal_factor) \div 1000) * SqrtMilli(elevation_factor))
                        \div 1000)
    IN  IF current_season_index \notin -12..11 THEN Raised(dc)
        ELSE Returned(final_risk,
                      [historical_score |-> Round2(historical_score),
                       exposure_score |-> Round2(exposure_score),
                       seasonal_factor |-> Round2(seasonal_factor),
                       coastal_factor |-> Round2(coastal_factor),
                       elevation_factor |-> Round2(elevation_factor),
                       calculation_time_ms |-> elapsed],
                      dc)

(***************************************************************************)
(* The inputs the scorers are applied to.                                  *)
(***************************************************************************)
Origin == [latitude |-> 0, longitude |-> 0]

\* HazardSource(location, intensity, influence_radius_km): at the location
\* itself, one degree away inside a 150 km radius, two degrees away out of
\* reach of a 100 km radius.
SourceInputs ==
    {[location |-> Origin, intensity |-> 10, influence_radius_km |-> 1000000],
     [location |-> [latitude |-> 1, longitude |-> 0], intensity |-> 6,
      influence_radius_km |-> 150000],
     [location |-> [latitude |-> 2, longitude |-> 0], intensity |-> 0,
      influence_radius_km |-> 100000]}

\* HistoricalEvent(severity, days_ago, impact_radius_km)
EventInputs ==
    {[severity |-> 10, days_ago |-> 0, impact_radius_km |-> 50],
     [severity |-> 7, days_ago |-> 3650, impact_radius_km |-> 50]}

SoilInputs == {0, 1000, 5000}
RatingInputs == {0, 10}
ElevationInputs == {-10, 0, 100}
RainfallInputs == {0, 10000}
TemperatureInputs == {20, 50}
WindInputs == {0, 200}
CoastalInputs == {0, 500}
\* Months 0..11, and 12, which is no month.
SeasonInputs == {0, 11, 12}
\* (time.time() - start_time) * 1000, whatever the clock gives
ElapsedInputs == {0, 1}

InitScoreSpec ==
    /\ InitCache /\ max_size = 1
    /\ InitService
    /\ InitConc
    /\ InitKeyIdle
    /\ InitAssess
    /\ distance_cache = EmptyCache
    /\ proximity_cache_size \in 0..MaxCacheSize
    /\ scoreIn \in {[location |-> Origin, sources |-> ss, events |-> es] :
                        ss \in SeqsUpTo(SourceInputs, MaxSources),
                        es \in SeqsUpTo(EventInputs, MaxEvents)}
    /\ scoreOut = <<>>
    /\ threads = NoThreads
    /\ InitWsIdle

EngineFrame == UNCHANGED <<proximity_cache_size, scoreIn, threads, cacheVars,
                           svcVars, concVars, keyVars, assessVars, wsVars>>

Scored(scorer, args, r) ==
    /\ scoreOut = <<>>
    /\ scoreOut' = << [scorer |-> scorer, args |-> args, raised |-> r.raised,
                       score |-> r.score, breakdown |-> r.breakdown] >>
    /\ distance_cache' = r.cache
    /\ EngineFrame

SeismicCall ==
    \E soil \in SoilInputs, rating \in RatingInputs, elapsed \in ElapsedInputs :
        Scored("seismic",
               [soil_amplification |-> soil, building_code_rating |-> rating],
               CalculateSeismicRisk(scoreIn.location, scoreIn.sources, scoreIn.events,
                                    soil, rating, distance_cache,
                                    proximity_cache_size, elapsed))

FloodCall ==
    \E elevation \in ElevationInputs, drainage \in RatingInputs,
       rainfall \in RainfallInputs, elapsed \in ElapsedInputs :
        Scored("flood",
               [elevation_meters |-> elevation, drainage_quality |-> drainage,
                annual_rainfall_mm |-> rainfall],
               CalculateFloodRisk(scoreIn.location, elevation, scoreIn.sources,
                                  scoreIn.events, drainage, rainfall, distance_cache,
                                  proximity_cache_size, elapsed))

WildfireCall ==
    \E vegetation \in RatingInputs, aridity \in RatingInputs,
       temperature \in TemperatureInputs, wind \in WindInputs,
       elapsed \in ElapsedInputs :
        Scored("wildfire",
               [vegetation_density |-> vegetation, climate_aridity_index |-> aridity,
                temperature_avg_c |-> temperature, wind_speed_kmh |-> wind],
               CalculateWildfireRisk(scoreIn.location, vegetation, aridity,
                                     scoreIn.events, scoreIn.sources, temperature, wind,
                                     distance_cache, proximity_cache_size, elapsed))

StormCall ==
    \E coastal \in CoastalInputs, elevation \in ElevationInputs,
       season \in SeasonInputs, exposure \in RatingInputs, elapsed \in ElapsedInputs :
        Scored("storm",
               [coastal_distance_km |-> coastal, elevation_meters |-> elevation,
                current_season_index |-> season, geographic_exposure |-> exposure],
               CalculateStormRisk(scoreIn.location, scoreIn.events, coastal, elevation,
                                  season, exposure, distance_cache,
                                  proximity_cache_size, elapsed))

\* RiskEngine.clear_cache
ClearCache ==
    /\ distance_cache' = EmptyCache
    /\ UNCHANGED scoreOut
    /\ EngineFrame

NextScore ==
    \/ SeismicCall
    \/ FloodCall
    \/ WildfireCall
    \/ StormCall
    \/ ClearCache

SpecScore == InitScoreSpec /\ [][NextScore]_vars

\* The arguments of the call are inside the ranges the scorer documents.
InRange(call) ==
    call.scorer = "storm" => call.args.current_season_index \in 0..11

\* C10: for in-range inputs, empty source and event lists included, each of
\* the four scorers returns without raising a score between 0 and 100 and a
\* non-empty breakdown map.
C10_ScoreWithinBounds ==
    (scoreOut # <<>> /\ InRange(scoreOut[1])) =>
        /\ ~scoreOut[1].raised
        /\ scoreOut[1].score # <<>>
        /\ 0 <= scoreOut[1].score[1] /\ scoreOut[1].score[1] <= 10000
        /\ scoreOut[1].breakdown # <<>>
        /\ DOMAIN scoreOut[1].breakdown[1] # {}

\* C10 witness: the wildfire scorer, called with no event and no fire
\* source on dense vegetation in hot, dry and windy weather, returned 100.
C10_Witness ==
    /\ scoreOut # <<>>
    /\ scoreOut[1].scorer = "wildfire"
    /\ scoreIn.sources = <<>>
    /\ scoreIn.events = <<>>
    /\ scoreOut[1].args.temperature_avg_c = 50
    /\ scoreOut[1].args.wind_speed_kmh = 200
    /\ ~scoreOut[1].raised
    /\ scoreOut[1].score = <<10000>>
    /\ "vegetation_score" \in DOMAIN scoreOut[1].breakdown[1]

(***************************************************************************)
(* Score -> RiskLevel: RiskEngine._determine_risk_level and                *)
(* RiskCalculationService._determine_risk_level, on scores in thousandths  *)
(* of a point.                                                             *)
(***************************************************************************)
\* Faulty variant: the thresholds belong to the lower level.
EngineRiskLevelInclusive(risk_score) ==
    IF risk_score <= 25000 THEN "low"
    ELSE IF risk_score <= 50000 THEN "moderate"
    ELSE IF risk_score <= 75000 THEN "high"
    ELSE "critical"

\* RiskEngine._determine_risk_level
EngineRiskLevel(risk_score) ==
    IF risk_score < 25000 THEN "low"
    ELSE IF risk_score < 50000 THEN "moderate"
    ELSE IF risk_score < 75000 THEN "high"
    ELSE "critical"

\* RiskCalculationService.RISK_THRESHOLDS, in the order of the dict
RiskThresholds ==
    << [level |-> "low", min_score |-> 0, max_score |-> 25000],
       [level |-> "moderate", min_score |-> 25000, max_score |-> 50000],
       [level |-> "high", min_score |-> 50000, max_score |-> 75000],
       [level |-> "critical", min_score |-> 75000, max_score |-> 100000] >>

\* RiskCalculationService._determine_risk_level: the first range that holds
\* the score, CRITICAL when none does.
RECURSIVE FirstRange(_, _)
FirstRange(thresholds, risk_score) ==
    IF thresholds = <<>> THEN "critical"
    ELSE IF Head(thresholds).min_score <= risk_score
                /\ risk_score < Head(thresholds).max_score
         THEN Head(thresholds).level
         ELSE FirstRange(Tail(thresholds), risk_score)

ServiceRiskLevel(risk_score) == FirstRange(RiskThresholds, risk_score)

\* Scores given to the two functions: every tenth of a point of [0, 100],
\* the thousandths next to the thresholds, and two scores out of range.
LevelInputs ==
    {100 * t : t \in 0..1000}
    \cup {b + d : b \in {25000, 50000, 75000}, d \in {-10, -1, 1, 10}}
    \cup {-1, 100001}

NoLevels == [engine |-> <<>>, service |-> <<>>]

InitLevelSpec ==
    /\ InitCache /\ max_size = 1
    /\ InitService
    /\ InitConc
    /\ InitKeyIdle
    /\ InitAssess
    /\ distance_cache = EmptyCache
    /\ proximity_cache_size = 0
    /\ scoreIn \in LevelInputs
    /\ scoreOut = NoLevels
    /\ threads = NoThreads
    /\ InitWsIdle

\* self._determine_risk_level(score) on a RiskEngine
EngineLevelCall ==
    /\ scoreOut.engine = <<>>
    /\ scoreOut' = [scoreOut EXCEPT !.engine = << EngineRiskLevel(scoreIn) >>]
    /\ UNCHANGED distance_cache
    /\ EngineFrame

\* self._determine_risk_level(score) on a RiskCalculationService
ServiceLevelCall ==
    /\ scoreOut.service = <<>>
    /\ scoreOut' = [scoreOut EXCEPT !.service = << ServiceRiskLevel(scoreIn) >>]
    /\ UNCHANGED distance_cache
    /\ EngineFrame

NextLevel ==
    \/ EngineLevelCall
    \/ ServiceLevelCall

SpecLevel == InitLevelSpec /\ [][NextLevel]_vars

\* The level the fixed thresholds assign to a score in thousandths.
ThresholdLevel(s) ==
    CASE s < 25000 -> "low"
      [] 25000 <= s /\ s < 50000 -> "moderate"
      [] 50000 <= s /\ s < 75000 -> "high"
      [] s >= 75000 -> "critical"

\* C11: for every score in [0, 100] both _determine_risk_level functions
\* return LOW below 25, MODERATE from 25 to below 50, HIGH from 50 to below
\* 75 and CRITICAL from 75 on.
C11_LevelsFollowThresholds ==
    (0 <= scoreIn /\ scoreIn <= 100000) =>
        /\ scoreOut.engine # <<>> => scoreOut.engine[1] = ThresholdLevel(scoreIn)
        /\ scoreOut.service # <<>> => scoreOut.service[1] = ThresholdLevel(scoreIn)

\* C11 witness: both functions were called on 25.0 and returned MODERATE.
C11_Witness ==
    /\ scoreIn = 25000
    /\ scoreOut.engine = <<"moderate">>
    /\ scoreOut.service = <<"moderate">>

(***************************************************************************)
(* RiskEngine.calculate_composite_risk.  Scores are in thousandths of a    *)
(* point; a weight map is kept as integer weights, and the normalized      *)
(* weights w / weight_sum as the numerators w over one denominator, so     *)
(* that no quotient is taken before the weighted sum.                      *)
(***************************************************************************)
MaxScored == 2      \* number of hazards in a score map

CompositeHazards == {"earthquake", "flood", "fire"}

RECURSIVE SumOver(_, _)
SumOver(f, S) ==
    IF S = {} THEN 0
    ELSE LET x == CHOOSE y \in S : TRUE
         IN  f[x] + SumOver(f, S \ {x})

RECURSIVE MaxOver(_, _)
MaxOver(f, S) ==
    LET x == CHOOSE y \in S : TRUE
    IN  IF S = {x} THEN f[x] ELSE Max(f[x], MaxOver(f, S \ {x}))

\* hazard_weights = {h: 1.0 / len(hazard_scores) for h in hazard_scores}:
\* equal weights, here 1 each (normalizing divides them by their sum).
DefaultWeights(hazard_scores) == [h \in DOMAIN hazard_scores |-> 1]

\* lines 695-699: w / weight_sum when the sum is positive, else
\* 1 / len(hazard_weights)
NormalizedWeights(hazard_weights) ==
    LET weight_sum == SumOver(hazard_weights, DOMAIN hazard_weights)
    IN  IF weight_sum > 0 THEN [num |-> hazard_weights, den |-> weight_sum]
        ELSE [num |-> [h \in DOMAIN hazard_weights |-> 1],
              den |-> Cardinality(DOMAIN hazard_weights)]

\* normalized_weights.get(hazard, 0), as a numerator
WeightOf(normalized, hazard) ==
    IF hazard \in DOMAIN normalized.num THEN normalized.num[hazard] ELSE 0

\* sum(score * normalized_weights.get(hazard, 0) for hazard, score in ...)
WeightedAverage(hazard_scores, normalized) ==
    IF DOMAIN normalized.num = {} THEN 0
    ELSE SumOver([h \in DOMAIN hazard_scores |->
                     hazard_scores[h] * WeightOf(normalized, h)],
                 DOMAIN hazard_scores) \div normalized.den

\* Faulty variant: the smallest of the scores.
MinScore(hazard_scores) ==
    0 - MaxOver([h \in DOMAIN hazard_scores |-> 0 - hazard_scores[h]],
                DOMAIN hazard_scores)

\* max(hazard_scores.values())
MaxScore(hazard_scores) == MaxOver(hazard_scores, DOMAIN hazard_scores)

\* The product of the (1 - p), p = score / 100, in ten-thousandths
RECURSIVE ProductOfComplements(_, _)
ProductOfComplements(hazard_scores, S) ==
    IF S = {} THEN 10000
    ELSE LET x == CHOOSE y \in S : TRUE
         IN  (((100000 - hazard_scores[x]) \div 10)
                * ProductOfComplements(hazard_scores, S \ {x})) \div 10000

\* lines 717-719: combined_prob * 100
Probabilistic(hazard_scores) ==
    (10000 - ProductOfComplements(hazard_scores, DOMAIN hazard_scores)) * 10

\* Faulty variant: the empty score map is answered without the marker.
NoMarker == [placeholder \in {} |-> 0]

\* line 688: the breakdown returned for an empty score map
NoDataBreakdown == [error |-> "No hazard scores provided"]

\* calculate_composite_risk: (round(composite_score, 2), risk_level,
\* breakdown); hazard_weights is <<>> for None.
CalculateCompositeRisk(hazard_scores, hazard_weights, method, elapsed) ==
    LET weights == IF hazard_weights = <<>> THEN DefaultWeights(hazard_scores)
                   ELSE hazard_weights[1]
        normalized_weights == NormalizedWeights(weights)
        raw == CASE method = "weighted_average" ->
                        WeightedAverage(hazard_scores, normalized_weights)
                 [] method = "max" -> MaxScore(hazard_scores)
                 [] method = "probabilistic" -> Probabilistic(hazard_scores)
                 [] OTHER -> WeightedAverage(hazard_scores, normalized_weights)
        composite_score == Clamp(raw)
    IN  IF DOMAIN hazard_scores = {}
        THEN [raised |-> FALSE, score |-> 0, level |-> "low",
              breakdown |-> NoDataBreakdown]
        ELSE [raised |-> FALSE,
              score |-> Round2(composite_score),
              level |-> EngineRiskLevel(composite_score),
              breakdown |-> [individual_scores |-> hazard_scores,
                             weights_used |-> normalized_weights,
                             aggregation_method |-> method,
                             calculation_time_ms |-> elapsed]]

\* Scores of the map: values with two decimals and one with three.
CompositeScoreInputs == {0, 24990, 25000, 50000, 74996, 100000}

ScoreMaps ==
    UNION {[S -> CompositeScoreInputs] :
              S \in {T \in SUBSET CompositeHazards : Cardinality(T) <= MaxScored}}

\* Weight maps: none, empty, for the scored hazards, for more and for fewer
\* hazards than are scored, summing to zero, with a negative weight.
WeightMaps ==
    {<<>>,
     << [h \in {} |-> 0] >>,
     << [h \in {"earthquake", "flood"} |-> IF h = "flood" THEN 2 ELSE 1] >>,
     << [h \in CompositeHazards |-> IF h = "fire" THEN 2 ELSE 1] >>,
     << [h \in {"earthquake"} |-> 1] >>,
     << [h \in {"earthquake", "flood"} |-> 0] >>,
     << [h \in {"earthquake", "flood"} |-> IF h = "flood" THEN -1 ELSE 2] >>}

\* config.composite_aggregation_method; "median" is none of the three.
AggregationMethods == {"weighted_average", "max", "probabilistic", "median"}

InitCompositeSpec ==
    /\ InitCache /\ max_size = 1
    /\ InitService
    /\ InitConc
    /\ InitKeyIdle
    /\ InitAssess
    /\ distance_cache = EmptyCache
    /\ proximity_cache_size = 0
    /\ scoreIn \in [hazard_scores : ScoreMaps, hazard_weights : WeightMaps,
                    method : AggregationMethods]
    /\ scoreOut = <<>>
    /\ threads = NoThreads
    /\ InitWsIdle

CompositeCall ==
    /\ scoreOut = <<>>
    /\ \E elapsed \in ElapsedInputs :
          scoreOut' = << CalculateCompositeRisk(scoreIn.hazard_scores,
                                                scoreIn.hazard_weights,
                                                scoreIn.method, elapsed) >>
    /\ UNCHANGED distance_cache
    /\ EngineFrame

NextComposite == CompositeCall

SpecComposite == InitCompositeSpec /\ [][NextComposite]_vars

CompositeReturned == scoreOut # <<>> /\ DOMAIN scoreIn.hazard_scores # {}

\* C12: for a non-empty score map and every aggregation method the returned
\* level is the level the thresholds assign to the returned composite
\* score.
C12_LevelMatchesReturnedScore ==
    CompositeReturned =>
        scoreOut[1].level = ThresholdLevel(10 * scoreOut[1].score)

\* The weights multiplied into the scored hazards of the returned result,
\* as numerators over weights_used.den
UsedWeightSum ==
    SumOver([h \in DOMAIN scoreIn.hazard_scores |->
                WeightOf(scoreOut[1].breakdown.weights_used, h)],
            DOMAIN scoreIn.hazard_scores)

AllScoredAlike ==
    \A h, g \in DOMAIN scoreIn.hazard_scores :
        scoreIn.hazard_scores[h] = scoreIn.hazard_scores[g]

\* C13: with weighted_average and any weight map the caller supplies, the
\* weights multiplied into the scored hazards sum to 1, so that hazards
\* all scoring v give the composite v.
C13_UsedWeightsSumToOne ==
    (CompositeReturned /\ scoreIn.method = "weighted_average"
        /\ scoreIn.hazard_weights # <<>>) =>
        /\ DOMAIN scoreOut[1].breakdown.weights_used.num # {}
        /\ UsedWeightSum = scoreOut[1].breakdown.weights_used.den
        /\ AllScoredAlike =>
              Abs(10 * scoreOut[1].score - MaxScore(scoreIn.hazard_scores)) <= 5

\* C14: an empty score map does not raise; the result is score 0, level
\* LOW and a breakdown that carries the no-data marker.
C14_EmptyMapGivesNoData ==
    (scoreOut # <<>> /\ DOMAIN scoreIn.hazard_scores = {}) =>
        /\ ~scoreOut[1].raised
        /\ scoreOut[1].score = 0
        /\ scoreOut[1].level = "low"
        /\ "error" \in DOMAIN scoreOut[1].breakdown
        /\ scoreOut[1].breakdown.error = "No hazard scores provided"

C14_Witness ==
    /\ scoreOut # <<>>
    /\ DOMAIN scoreIn.hazard_scores = {}
    /\ scoreIn.hazard_weights # <<>>
    /\ scoreIn.method = "probabilistic"
    /\ scoreOut[1].score = 0

\* The largest score of the input map
IsLargestInput(v) ==
    /\ \E h \in DOMAIN scoreIn.hazard_scores : scoreIn.hazard_scores[h] = v
    /\ \A h \in DOMAIN scoreIn.hazard_scores : scoreIn.hazard_scores[h] <= v

MaxReturned == CompositeReturned /\ scoreIn.method = "max"

\* C15 as stated: with method max the composite equals the largest input
\* score, whatever weights are supplied.
C15_Original ==
    MaxReturned => IsLargestInput(10 * scoreOut[1].score)

\* C15: with method max and scores in [0, 100] the composite is the largest
\* input score rounded to two decimals, whatever weights are supplied.
C15_MaxIsLargestRounded ==
    MaxReturned =>
        \E h \in DOMAIN scoreIn.hazard_scores :
            /\ IsLargestInput(scoreIn.hazard_scores[h])
            /\ Abs(10 * scoreOut[1].score - scoreIn.hazard_scores[h]) <= 5

C15_Witness ==
    /\ MaxReturned
    /\ scoreIn.hazard_scores =
          [h \in {"earthquake", "flood"} |->
              IF h = "flood" THEN 74996 ELSE 25000]
    /\ scoreIn.hazard_weights # <<>>
    /\ scoreIn.hazard_weights[1] = [h \in {"earthquake"} |-> 1]
    /\ scoreOut[1].score = 7500

(***************************************************************************)
(* Repeated calls.  scoreIn names one call (a scorer or the aggregator,    *)
(* with its arguments); scoreOut is the sequence of what that call         *)
(* returned each time it was made.  Between two of them other scorers run  *)
(* on other sources and the distance cache is cleared.                     *)
(***************************************************************************)
MaxCalls == 2

RepeatedCalls == {"seismic", "flood", "wildfire", "storm", "composite"}

\* The score map of the repeated calculate_composite_risk call
RepeatedScores ==
    [h \in {"earthquake", "flood"} |-> IF h = "flood" THEN 50000 ELSE 24990]

\* One call, with the defaults of the signatures for the arguments that
\* have one: what it returns and the distance cache it leaves.
CallOf(call, location, sources, events, dc, size, elapsed) ==
    CASE call = "seismic" ->
            CalculateSeismicRisk(location, sources, events, 1000, 5, dc, size, elapsed)
      [] call = "flood" ->
            CalculateFloodRisk(location, 0, sources, events, 5, 1000, dc, size, elapsed)
      [] call = "wildfire" ->
            CalculateWildfireRisk(location, 10, 10, events, sources, 20, 10, dc, size,
                                  elapsed)
      [] call = "storm" ->
            CalculateStormRisk(location, events, 0, 0, 0, 5, dc, size, elapsed)
      [] call = "composite" ->
            LET r == CalculateCompositeRisk(RepeatedScores, <<>>, "weighted_average",
                                            elapsed)
            IN  [raised |-> r.raised, score |-> <<r.score, r.level>>,
                 breakdown |-> <<r.breakdown>>, cache |-> dc]

InitRepeatSpec ==
    /\ InitCache /\ max_size = 1
    /\ InitService
    /\ InitConc
    /\ InitKeyIdle
    /\ InitAssess
    /\ distance_cache = EmptyCache
    /\ proximity_cache_size \in 0..MaxCacheSize
    /\ scoreIn \in [call : RepeatedCalls, location : {Origin},
                    sources : SeqsUpTo(SourceInputs, MaxSources),
                    events : {<<>>, <<CHOOSE e \in EventInputs : e.days_ago = 0>>}]
    /\ scoreOut = <<>>
    /\ threads = NoThreads
    /\ InitWsIdle

RepeatedCall ==
    /\ Len(scoreOut) < MaxCalls
    /\ \E elapsed \in ElapsedInputs :
          LET r == CallOf(scoreIn.call, scoreIn.location, scoreIn.sources,
                          scoreIn.events, distance_cache, proximity_cache_size,
                          elapsed)
          IN  /\ scoreOut' = Append(scoreOut, [raised |-> r.raised, score |-> r.score,
                                               breakdown |-> r.breakdown])
              /\ distance_cache' = r.cache
    /\ EngineFrame

\* A call in between: another scorer on one source
CallBetween ==
    /\ \E call \in {"seismic", "flood", "wildfire"}, source \in SourceInputs :
          distance_cache' = CallOf(call, scoreIn.location, <<source>>, <<>>,
                                   distance_cache, proximity_cache_size, 0).cache
    /\ UNCHANGED scoreOut
    /\ EngineFrame

NextRepeat ==
    \/ RepeatedCall
    \/ CallBetween
    \/ ClearCache

SpecRepeat == InitRepeatSpec /\ [][NextRepeat]_vars

\* The breakdown without the time the call took
Timeless(breakdown) ==
    IF breakdown = <<>> THEN <<>>
    ELSE << [breakdown[1] EXCEPT !.calculation_time_ms = 0] >>

\* C16 as stated: two calls with identical inputs return the same score
\* and the same breakdown, whatever was called in between.
C16_Original ==
    \A i, j \in DOMAIN scoreOut : scoreOut[i] = scoreOut[j]

\* C16: two calls with identical inputs return the same score (and level)
\* and the same breakdown in every entry but calculation_time_ms, whatever
\* was called in between, calls filling or clearing the distance cache
\* included.
C16_SameInputsSameOutputs ==
    \A i, j \in DOMAIN scoreOut :
        /\ scoreOut[i].raised = scoreOut[j].raised
        /\ scoreOut[i].score = scoreOut[j].score
        /\ Timeless(scoreOut[i].breakdown) = Timeless(scoreOut[j].breakdown)

\* The second seismic call found its distance in the cache, which the first
\* one filled.
C16_Witness ==
    /\ Len(scoreOut) = 2
    /\ scoreIn.call = "seismic"
    /\ Len(scoreIn.sources) = 1
    /\ scoreIn.sources[1].intensity = 6
    /\ DOMAIN distance_cache = {<<0, 0, 1, 0>>}
    /\ scoreOut[1].score # <<0>>
    /\ scoreOut[1].breakdown # scoreOut[2].breakdown

(***************************************************************************)
(* Building code mitigation of the seismic score                           *)
(***************************************************************************)
SeismicReturned ==
    /\ scoreOut # <<>>
    /\ scoreOut[1].scorer = "seismic"
    /\ ~scoreOut[1].raised

\* The score of the same seismic call with another building code rating
SeismicScoreWithRating(rating) ==
    CalculateSeismicRisk(scoreIn.location, scoreIn.sources, scoreIn.events,
                         scoreOut[1].args.soil_amplification, rating,
                         distance_cache, proximity_cache_size, 0).score[1]

\* C17 as stated: the seismic score with building_code_rating 10 is
\* strictly lower than the score with rating 0, all else equal, for every
\* location, fault list, event list and soil amplification.
C17_Original ==
    (SeismicReturned /\ scoreOut[1].args.building_code_rating = 10) =>
        scoreOut[1].score[1] < SeismicScoreWithRating(0)

\* C17: the seismic score with building_code_rating 10 is never higher
\* than the score with rating 0, all else equal, and strictly lower
\* whenever the score with rating 0 is at least 0.02 and below 100.
C17_MitigationLowersScore ==
    (SeismicReturned /\ scoreOut[1].args.building_code_rating = 10) =>
        /\ scoreOut[1].score[1] <= SeismicScoreWithRating(0)
        /\ (2 <= SeismicScoreWithRating(0) /\ SeismicScoreWithRating(0) < 10000)
              => scoreOut[1].score[1] < SeismicScoreWithRating(0)

\* One fault a degree away, no event: rating 10 halves a score that is
\* neither 0 nor 100.
C17_Witness ==
    /\ SeismicReturned
    /\ scoreOut[1].args.building_code_rating = 10
    /\ scoreOut[1].args.soil_amplification = 1000
    /\ Len(scoreIn.sources) = 1
    /\ scoreIn.sources[1].intensity = 6
    /\ scoreIn.events = <<>>
    /\ scoreOut[1].score[1] > 0
    /\ SeismicScoreWithRating(0) < 10000
    /\ scoreOut[1].score[1] < SeismicScoreWithRating(0)

(***************************************************************************)
(* The distance cache: calculate_distance_km and clear_cache called on one *)
(* engine, one call after another.                                         *)
(***************************************************************************)
PointInputs == {[latitude |-> lat, longitude |-> 0] : lat \in {0, 1, 2}}

CacheKeyOf(point1, point2) ==
    <<point1.latitude, point1.longitude, point2.latitude, point2.longitude>>

InitDistanceSpec ==
    /\ InitCache /\ max_size = 1
    /\ InitService
    /\ InitConc
    /\ InitKeyIdle
    /\ InitAssess
    /\ distance_cache = EmptyCache
    /\ proximity_cache_size \in 0..(MaxCacheSize + 1)
    /\ scoreIn = <<>>
    /\ scoreOut = <<>>
    /\ threads = NoThreads
    /\ InitWsIdle

\* calculate_distance_km(point1, point2); scoreOut is the call and the
\* distance it returned.
DistanceCall ==
    /\ \E point1, point2 \in PointInputs :
          LET r == CalculateDistanceKm(point1, point2, distance_cache,
                                       proximity_cache_size)
          IN  /\ distance_cache' = r.cache
              /\ scoreOut' = << [key |-> CacheKeyOf(point1, point2), km |-> r.km] >>
    /\ EngineFrame

NextDistance ==
    \/ DistanceCall
    \/ ClearCache

SpecDistance == InitDistanceSpec /\ [][NextDistance]_vars

CacheLen == Cardinality(DOMAIN distance_cache)

\* The distance of a cache key's two points
DistanceOfKey(key) ==
    Haversine([latitude |-> key[1], longitude |-> key[2]],
              [latitude |-> key[3], longitude |-> key[4]])

EntriesStay ==
    \A k \in DOMAIN distance_cache :
        k \in DOMAIN distance_cache' /\ distance_cache'[k] = distance_cache[k]

\* C18: after any sequence of calculate_distance_km and clear_cache calls
\* the cache holds at most proximity_cache_size entries; a call on a full
\* cache returns the distance of its pair and leaves the cache as it was;
\* an entry stays, with its distance, until clear_cache empties the cache.
C18_CacheBoundedNoEviction ==
    /\ [](CacheLen <= proximity_cache_size)
    /\ [][/\ distance_cache' = EmptyCache \/ EntriesStay
          /\ (CacheLen >= proximity_cache_size /\ scoreOut' # scoreOut) =>
                /\ distance_cache' = distance_cache
                /\ scoreOut'[1].km = DistanceOfKey(scoreOut'[1].key)]_vars

\* The cache of two entries is full and the last call, on a third pair,
\* returned its distance and is not in the cache.
C18_Witness ==
    /\ proximity_cache_size = 2
    /\ CacheLen = 2
    /\ scoreOut # <<>>
    /\ scoreOut[1].key \notin DOMAIN distance_cache
    /\ scoreOut[1].key = <<0, 0, 2, 0>>
    /\ scoreOut[1].km = 222390

(***************************************************************************)
(* calculate_distance_km called by several threads on one engine.  The     *)
(* method takes no lock, so another thread may run between any two of its  *)
(* statements: the lookup (141-143), the size check (160), the store       *)
(* (161).                                                                  *)
(***************************************************************************)
InitThreadSpec ==
    /\ InitCache /\ max_size = 1
    /\ InitService
    /\ InitConc
    /\ InitKeyIdle
    /\ InitAssess
    /\ distance_cache = EmptyCache
    /\ proximity_cache_size \in 0..MaxCacheSize
    /\ scoreIn = <<>>
    /\ scoreOut = <<>>
    /\ threads = NoThreads
    /\ InitWsIdle

ThreadFrame ==
    UNCHANGED <<proximity_cache_size, scoreIn, scoreOut, cacheVars, svcVars,
                concVars, keyVars, assessVars, wsVars>>

\* lines 141-157: a hit returns the cached distance, a miss computes it
Lookup(t) ==
    /\ threads[t].pc = "idle"
    /\ \E point1, point2 \in PointInputs :
          LET cache_key == CacheKeyOf(point1, point2)
          IN  threads' =
                [threads EXCEPT ![t] =
                    IF cache_key \in DOMAIN distance_cache
                    THEN [pc |-> "idle", key |-> cache_key,
                          km |-> <<distance_cache[cache_key]>>]
                    ELSE [pc |-> "size_check", key |-> cache_key,
                          km |-> <<Haversine(point1, point2)>>]]
    /\ UNCHANGED distance_cache
    /\ ThreadFrame

\* line 160: if len(self._distance_cache) < self.config.proximity_cache_size
SizeCheck(t) ==
    /\ threads[t].pc = "size_check"
    /\ threads' = [threads EXCEPT ![t].pc =
                      IF CacheLen < proximity_cache_size THEN "store" ELSE "idle"]
    /\ UNCHANGED distance_cache
    /\ ThreadFrame

\* line 161: self._distance_cache[cache_key] = km, then return km
Store(t) ==
    /\ threads[t].pc = "store"
    /\ distance_cache' = Put(distance_cache, threads[t].key, threads[t].km[1])
    /\ threads' = [threads EXCEPT ![t].pc = "idle"]
    /\ ThreadFrame

NextThread ==
    \E t \in Threads :
        \/ Lookup(t)
        \/ SizeCheck(t)
        \/ Store(t)

SpecThread == InitThreadSpec /\ [][NextThread]_vars

\* C19: when several threads call calculate_distance_km at once, the cache
\* holds at most proximity_cache_size entries under every interleaving.
C19_CacheBoundedUnderThreads == CacheLen <= proximity_cache_size

(***************************************************************************)
(* GeographicPoint(latitude, longitude), in whole degrees                  *)
(***************************************************************************)
MaxLatitude == 92
MaxLongitude == 182

\* Faulty variant: an out-of-range coordinate is clamped to the nearest
\* valid one.
GeographicPointClamped(latitude, longitude) ==
    [raised |-> FALSE, error |-> "",
     point |-> << [latitude |-> Max(-90, Min(90, latitude)),
                   longitude |-> Max(-180, Min(180, longitude))] >>]

\* The dataclass constructor: the fields are set, then __post_init__
\* checks the latitude, then the longitude; a ValueError leaves no point.
GeographicPoint(latitude, longitude) ==
    LET p == [latitude |-> latitude, longitude |-> longitude]
    IN  IF ValidPoint(p) THEN [raised |-> FALSE, error |-> "", point |-> <<p>>]
        ELSE IF ~(-90 <= latitude /\ latitude <= 90)
        THEN [raised |-> TRUE, error |-> "Invalid latitude", point |-> <<>>]
        ELSE [raised |-> TRUE, error |-> "Invalid longitude", point |-> <<>>]

PointLatitudes == (0 - MaxLatitude)..MaxLatitude

PointLongitudes ==
    {0 - MaxLongitude, -181, -180, -179, -122, 0, 179, 180, 181, MaxLongitude}

InitPointSpec ==
    /\ InitCache /\ max_size = 1
    /\ InitService
    /\ InitConc
    /\ InitKeyIdle
    /\ InitAssess
    /\ distance_cache = EmptyCache
    /\ proximity_cache_size = 0
    /\ scoreIn \in [latitude : PointLatitudes, longitude : PointLongitudes]
    /\ scoreOut = <<>>
    /\ threads = NoThreads
    /\ InitWsIdle

Construct ==
    /\ scoreOut = <<>>
    /\ scoreOut' = << GeographicPoint(scoreIn.latitude, scoreIn.longitude) >>
    /\ UNCHANGED distance_cache
    /\ EngineFrame

NextPoint == Construct

SpecPoint == InitPointSpec /\ [][NextPoint]_vars

CoordinatesInRange ==
    /\ scoreIn.latitude \in -90..90
    /\ scoreIn.longitude \in -180..180

\* C20: constructing a GeographicPoint with a latitude outside [-90, 90]
\* or a longitude outside [-180, 180] fails with an error and yields no
\* point; every in-range pair, the boundaries included, is accepted with
\* its coordinates unchanged.
C20_OutOfRangeRejected ==
    scoreOut # <<>> =>
        IF CoordinatesInRange
        THEN /\ ~scoreOut[1].raised
             /\ scoreOut[1].point
                  = << [latitude |-> scoreIn.latitude,
                        longitude |-> scoreIn.longitude] >>
        ELSE /\ scoreOut[1].raised
             /\ scoreOut[1].error \in {"Invalid latitude", "Invalid longitude"}
             /\ scoreOut[1].point = <<>>

\* Longitude 181 at latitude 90 was rejected.
C20_Witness ==
    /\ scoreOut # <<>>
    /\ scoreIn.latitude = 90
    /\ scoreIn.longitude = 181
    /\ scoreOut[1].raised
    /\ scoreOut[1].error = "Invalid longitude"
    /\ scoreOut[1].point = <<>>

(***************************************************************************)
(* AdvancedAnalyticsService.analyze_historical_trends.  A row of           *)
(* historical_data is its event_date and its severity (0-10); the rows of  *)
(* other locations and hazards are left out.  Dates are whole periods,     *)
(* start_date is period 1.                                                 *)
(***************************************************************************)
MaxTrendEvents == 3

StartDate == 1

TrendRows == [event_date : 0..2, severity : {0, 4, 5, 6}]

\* .where(... event_date >= start_date): the positions of the rows selected
SelectedRows(rows) == {i \in DOMAIN rows : rows[i].event_date >= StartDate}

\* .order_by(HistoricalData.event_date): the selected rows in an order of
\* non-decreasing date; the database fixes no order among equal dates.
OrderedByDate(rows) ==
    LET sel == SelectedRows(rows)
        n == Cardinality(sel)
    IN  {[i \in 1..n |-> rows[p[i]]] :
            p \in {q \in [1..n -> sel] :
                     /\ \A i, j \in 1..n : i # j => q[i] # q[j]
                     /\ \A i, j \in 1..n :
                           i < j => rows[q[i]].event_date <= rows[q[j]].event_date}}

RECURSIVE SumSeq(_)
SumSeq(xs) == IF xs = <<>> THEN 0 ELSE xs[1] + SumSeq(Tail(xs))

\* Faulty variant: the first half takes the middle event of an odd list.
FirstHalfCeil(severities) == SubSeq(severities, 1, (Len(severities) + 1) \div 2)

\* severities[:len(severities)//2]
FirstHalf(severities) == SubSeq(severities, 1, Len(severities) \div 2)

\* severities[len(severities)//2:]
SecondHalf(severities) ==
    SubSeq(severities, Len(FirstHalf(severities)) + 1, Len(severities))

\* lines 71-82.  The two means are compared as fractions:
\* s2/n2 > 1.2 * s1/n1 is 10 * s2 * n1 > 12 * s1 * n2.
TrendOf(severities) ==
    IF Len(severities) > 1
    THEN LET first == FirstHalf(severities)
             second == SecondHalf(severities)
             s1 == SumSeq(first)
             s2 == SumSeq(second)
         IN  IF 10 * s2 * Len(first) > 12 * s1 * Len(second) THEN "increasing"
             ELSE IF 10 * s2 * Len(first) < 8 * s1 * Len(second) THEN "decreasing"
             ELSE "stable"
    ELSE "insufficient_data"

RECURSIVE MaxSeq(_)
MaxSeq(xs) == IF Len(xs) = 1 THEN xs[1] ELSE Max(xs[1], MaxSeq(Tail(xs)))

RECURSIVE MinSeq(_)
MinSeq(xs) == IF Len(xs) = 1 THEN xs[1] ELSE Min(xs[1], MinSeq(Tail(xs)))

\* analyze_historical_trends on the events the query returned
AnalyzeHistoricalTrends(events) ==
    LET severities == [i \in DOMAIN events |-> events[i].severity]
    IN  IF events = <<>>
        THEN [event_count |-> 0, trend |-> "insufficient_data",
              max_severity |-> 0, min_severity |-> 0]
        ELSE [event_count |-> Len(events), trend |-> TrendOf(severities),
              max_severity |-> MaxSeq(severities),
              min_severity |-> MinSeq(severities)]

InitTrendSpec ==
    /\ InitCache /\ max_size = 1
    /\ InitService
    /\ InitConc
    /\ InitKeyIdle
    /\ InitAssess
    /\ distance_cache = EmptyCache
    /\ proximity_cache_size = 0
    /\ scoreIn \in SeqsUpTo(TrendRows, MaxTrendEvents)
    /\ scoreOut = <<>>
    /\ threads = NoThreads
    /\ InitWsIdle

\* scoreOut: the events as the query returned them, and the analysis
TrendCall ==
    /\ scoreOut = <<>>
    /\ \E events \in OrderedByDate(scoreIn) :
          scoreOut' = << [events |-> events,
                          result |-> AnalyzeHistoricalTrends(events)] >>
    /\ UNCHANGED distance_cache
    /\ EngineFrame

NextTrend == TrendCall

SpecTrend == InitTrendSpec /\ [][NextTrend]_vars

\* The sum of the severities of events[a..b]
RECURSIVE SeveritySum(_, _, _)
SeveritySum(events, a, b) ==
    IF a > b THEN 0 ELSE events[a].severity + SeveritySum(events, a + 1, b)

\* C21: fewer than 2 events give 'insufficient_data'; for n >= 2 events in
\* date order, with first the mean severity of the first floor(n/2) events
\* and second that of the others, the trend is 'increasing' when
\* second > 1.2 * first, 'decreasing' when second < 0.8 * first, and
\* 'stable' otherwise.
C21_TrendComparesHalves ==
    scoreOut # <<>> =>
        LET events == scoreOut[1].events
            n == Len(events)
            h == n \div 2
            s1 == SeveritySum(events, 1, h)
            s2 == SeveritySum(events, h + 1, n)
            trend == scoreOut[1].result.trend
        IN  /\ \A i, j \in 1..n : i < j => events[i].event_date <= events[j].event_date
            /\ n < 2 => trend = "insufficient_data"
            /\ n >= 2 =>
                  /\ trend = "increasing" <=> 10 * s2 * h > 12 * s1 * (n - h)
                  /\ trend = "decreasing" <=> 10 * s2 * h < 8 * s1 * (n - h)
                  /\ trend = "stable" <=>
                        /\ 10 * s2 * h <= 12 * s1 * (n - h)
                        /\ 10 * s2 * h >= 8 * s1 * (n - h)

\* Three events, severity 5 then 6 and 6: second = 6 is not above
\* 1.2 * 5, the trend is stable.
C21_Witness ==
    /\ scoreOut # <<>>
    /\ Len(scoreOut[1].events) = 3
    /\ scoreOut[1].events[1].severity = 5
    /\ scoreOut[1].events[2].severity = 6
    /\ scoreOut[1].events[3].severity = 6
    /\ scoreOut[1].result.trend = "stable"

(***************************************************************************)
(* AdvancedAnalyticsService.calculate_regional_risk_index.  A row is a     *)
(* risk assessment joined with its location; scores are in hundredths of   *)
(* a point.                                                                *)
(***************************************************************************)
MaxAssessments == 2

RiskLevels == {"low", "moderate", "high", "critical"}

RegionRows ==
    {[latitude |-> lat, longitude |-> 0, hazard_id |-> h,
      risk_score |-> sc.score, risk_level |-> sc.level] :
        lat \in {0, 5}, h \in {1, 2},
        sc \in {[score |-> 2000, level |-> "low"],
                [score |-> 8000, level |-> "critical"]}}

\* lines 227-237: the rows inside the box; "if hazard_id:" filters neither
\* for None (<<>>) nor for 0.
RegionQuery(rows, box, hazard_id) ==
    SelectSeq(rows,
              LAMBDA a :
                 /\ a.latitude >= box.min_latitude
                 /\ a.latitude <= box.max_latitude
                 /\ a.longitude >= box.min_longitude
                 /\ a.longitude <= box.max_longitude
                 /\ (hazard_id # <<>> /\ hazard_id[1] # 0)
                       => a.hazard_id = hazard_id[1])

RECURSIVE InsertSorted(_, _)
InsertSorted(x, xs) ==
    IF xs = <<>> THEN <<x>>
    ELSE IF x <= xs[1] THEN <<x>> \o xs
    ELSE <<xs[1]>> \o InsertSorted(x, Tail(xs))

RECURSIVE SortedScores(_)
SortedScores(xs) ==
    IF xs = <<>> THEN <<>> ELSE InsertSorted(xs[1], SortedScores(Tail(xs)))

\* round(statistics.mean(scores), 2)
MeanOf(scores) == Round2((10 * SumSeq(scores)) \div Len(scores))

\* round(statistics.median(scores), 2)
MedianOf(scores) ==
    LET sorted == SortedScores(scores)
        n == Len(sorted)
    IN  IF n % 2 = 1 THEN sorted[(n + 1) \div 2]
        ELSE Round2(5 * (sorted[n \div 2] + sorted[n \div 2 + 1]))

\* statistics.stdev(scores), the root truncated to a hundredth
StdevOf(scores) ==
    IF Len(scores) > 1
    THEN LET n == Len(scores)
             squares == [i \in 1..n |->
                            ((n * scores[i] - SumSeq(scores)) \div n)
                              * ((n * scores[i] - SumSeq(scores)) \div n)]
         IN  ISqrtBetween(SumSeq(squares) \div (n - 1), 0, 46340)
    ELSE 0

\* lines 257-276: the statistics of a non-empty result, line 249: the
\* empty dict of an empty one
RiskStatistics(assessments) ==
    LET scores == [i \in DOMAIN assessments |-> assessments[i].risk_score]
    IN  IF assessments = <<>> THEN [none \in {} |-> 0]
        ELSE [average_risk_score |-> MeanOf(scores),
              median_risk_score |-> MedianOf(scores),
              std_deviation |-> StdevOf(scores),
              min_risk_score |-> MinSeq(scores),
              max_risk_score |-> MaxSeq(scores),
              risk_level_distribution |->
                  [level \in RiskLevels |->
                      Cardinality({i \in DOMAIN assessments :
                                      assessments[i].risk_level = level})]]

CalculateRegionalRiskIndex(rows, box, hazard_id) ==
    LET assessments == RegionQuery(rows, box, hazard_id)
    IN  [raised |-> FALSE,
         region |-> [bounds |-> box],
         assessment_count |-> Len(assessments),
         risk_statistics |-> RiskStatistics(assessments)]

RegionBoxes ==
    {[min_latitude |-> -1, max_latitude |-> 1,
      min_longitude |-> -1, max_longitude |-> 1],
     [min_latitude |-> 1, max_latitude |-> -1,
      min_longitude |-> -1, max_longitude |-> 1]}

InitRegionSpec ==
    /\ InitCache /\ max_size = 1
    /\ InitService
    /\ InitConc
    /\ InitKeyIdle
    /\ InitAssess
    /\ distance_cache = EmptyCache
    /\ proximity_cache_size = 0
    /\ scoreIn \in [rows : SeqsUpTo(RegionRows, MaxAssessments),
                    box : RegionBoxes,
                    hazard_id : {<<>>, <<0>>, <<1>>, <<2>>}]
    /\ scoreOut = <<>>
    /\ threads = NoThreads
    /\ InitWsIdle

RegionCall ==
    /\ scoreOut = <<>>
    /\ scoreOut' = << CalculateRegionalRiskIndex(scoreIn.rows, scoreIn.box,
                                                 scoreIn.hazard_id) >>
    /\ UNCHANGED distance_cache
    /\ EngineFrame

NextRegion == RegionCall

SpecRegion == InitRegionSpec /\ [][NextRegion]_vars

StatisticsKeys ==
    {"average_risk_score", "median_risk_score", "std_deviation",
     "min_risk_score", "max_risk_score"}

\* C22: when no assessment falls inside the bounding box, the result is
\* returned without error, has count 0, and its mean, median, standard
\* deviation, minimum and maximum score and every per-level count are
\* present and equal to 0.
C22_EmptyRegionZeroedStatistics ==
    (scoreOut # <<>>
       /\ RegionQuery(scoreIn.rows, scoreIn.box, <<>>) = <<>>) =>
        /\ ~scoreOut[1].raised
        /\ scoreOut[1].assessment_count = 0
        /\ \A k \in StatisticsKeys :
              /\ k \in DOMAIN scoreOut[1].risk_statistics
              /\ scoreOut[1].risk_statistics[k] = 0
        /\ "risk_level_distribution" \in DOMAIN scoreOut[1].risk_statistics
        /\ \A level \in RiskLevels :
              scoreOut[1].risk_statistics.risk_level_distribution[level] = 0

\* What the code does for an empty region: count 0 and an empty
\* risk_statistics map, without error.
C22_EmptyRegionEmptyStatistics ==
    (scoreOut # <<>> /\ scoreOut[1].assessment_count = 0) =>
        /\ ~scoreOut[1].raised
        /\ DOMAIN scoreOut[1].risk_statistics = {}

(***************************************************************************)
(* AdvancedAnalyticsService.forecast_risk_evolution.  Scores are in        *)
(* hundredths of a point, the compounded multiplier in ten-thousandths.    *)
(***************************************************************************)
MaxMonths == 3

\* Faulty variant: the trend is not looked at.
TrendFactorFlat(trend) == 1000

\* lines 322-327, in thousandths
TrendFactor(trend) ==
    IF trend = "increasing" THEN 1020
    ELSE IF trend = "decreasing" THEN 980
    ELSE 1000

\* factor ** month, in ten-thousandths
RECURSIVE Compound(_, _)
Compound(factor, month) ==
    IF month = 0 THEN 10000 ELSE (Compound(factor, month - 1) * factor) \div 1000

\* lines 331-341: one entry of the forecast; projected_risk in thousandths
ForecastEntry(base_risk, trend_factor, month) ==
    LET projected_risk ==
            Min(Max((base_risk * Compound(trend_factor, month)) \div 1000, 0), 100000)
    IN  [month_ahead |-> month,
         projected_risk_score |-> Round2(projected_risk),
         confidence_interval |->
            [lower |-> Round2(Max(0, projected_risk - 5000)),
             upper |-> Round2(Min(100000, projected_risk + 5000))]]

\* forecast_risk_evolution; current_assessment is <<>> for None
ForecastRiskEvolution(current_assessment, trend, months_ahead) ==
    IF current_assessment = <<>>
    THEN [forecast_period_months |-> months_ahead, forecast |-> <<>>]
    ELSE [forecast_period_months |-> months_ahead,
          current_risk_score |-> current_assessment[1],
          trend |-> trend,
          forecast |-> [month \in 1..months_ahead |->
                           ForecastEntry(current_assessment[1], TrendFactor(trend),
                                         month)]]

Trends == {"increasing", "decreasing", "stable", "insufficient_data"}

LatestScores == {<<>>, <<0>>, <<300>>, <<499>>, <<2500>>, <<5000>>, <<9501>>,
                 <<9600>>, <<10000>>}

InitForecastSpec ==
    /\ InitCache /\ max_size = 1
    /\ InitService
    /\ InitConc
    /\ InitKeyIdle
    /\ InitAssess
    /\ distance_cache = EmptyCache
    /\ proximity_cache_size = 0
    /\ scoreIn \in [current_assessment : LatestScores, trend : Trends,
                    months_ahead : 0..MaxMonths]
    /\ scoreOut = <<>>
    /\ threads = NoThreads
    /\ InitWsIdle

ForecastCall ==
    /\ scoreOut = <<>>
    /\ scoreOut' = << ForecastRiskEvolution(scoreIn.current_assessment,
                                            scoreIn.trend, scoreIn.months_ahead) >>
    /\ UNCHANGED distance_cache
    /\ EngineFrame

NextForecast == ForecastCall

SpecForecast == InitForecastSpec /\ [][NextForecast]_vars

ForecastReturned == scoreOut # <<>> /\ scoreIn.current_assessment # <<>>

\* The latest score compounded month times by the multiplier of the trend
\* and clamped to [0, 100], in hundredths
Projected(month) ==
    LET multiplier == CASE scoreIn.trend = "increasing" -> 1020
                        [] scoreIn.trend = "decreasing" -> 980
                        [] OTHER -> 1000
    IN  Round2(Min(100000,
                   (scoreIn.current_assessment[1] * Compound(multiplier, month))
                       \div 1000))

ProjectsCompounded ==
    /\ Len(scoreOut[1].forecast) = scoreIn.months_ahead
    /\ \A m \in 1..scoreIn.months_ahead :
          /\ scoreOut[1].forecast[m].month_ahead = m
          /\ scoreOut[1].forecast[m].projected_risk_score = Projected(m)

\* C23 as stated: the confidence interval is exactly 5 points below and 5
\* points above the projected score.
C23_Original ==
    ForecastReturned =>
        /\ ProjectsCompounded
        /\ \A m \in 1..scoreIn.months_ahead :
              LET e == scoreOut[1].forecast[m]
              IN  /\ e.confidence_interval.lower = e.projected_risk_score - 500
                  /\ e.confidence_interval.upper = e.projected_risk_score + 500

\* C23: for every latest score in [0, 100], every trend and every month m
\* in 1..months_ahead, the entry projects the score compounded m times by
\* the trend multiplier and clamped to [0, 100]; its confidence interval
\* is 5 points below and 5 points above the projected score, each end
\* clamped to [0, 100].
C23_ForecastBandClamped ==
    ForecastReturned =>
        /\ ProjectsCompounded
        /\ \A m \in 1..scoreIn.months_ahead :
              LET e == scoreOut[1].forecast[m]
              IN  /\ e.confidence_interval.lower = Max(0, e.projected_risk_score - 500)
                  /\ e.confidence_interval.upper
                        = Min(10000, e.projected_risk_score + 500)

\* 96.00 under an increasing trend: 99.88 after two months, with the band
\* from 94.88 to 100.
C23_Witness ==
    /\ ForecastReturned
    /\ scoreIn.current_assessment = <<9600>>
    /\ scoreIn.trend = "increasing"
    /\ scoreIn.months_ahead >= 2
    /\ scoreOut[1].forecast[2].projected_risk_score = 9988
    /\ scoreOut[1].forecast[2].confidence_interval.lower = 9488
    /\ scoreOut[1].forecast[2].confidence_interval.upper = 10000

(***************************************************************************)
(* RiskCalculationService.calculate_risk: the factor analysis, the score,  *)
(* the level and the recommendations.  Impacts and scores are in           *)
(* hundredths of a point, ratings and severities in tenths.                *)
(***************************************************************************)
\* _analyze_factors (73-113); event_count is the count of the last 10 years
AnalyzeFactors(pop_density, building_code, infrastructure, base_severity, event_count) ==
    [population_density_impact |-> Min(pop_density, 10000),
     building_code_impact |-> Max(0, 10000 - building_code * 100),
     infrastructure_impact |-> Max(0, 10000 - infrastructure * 100),
     hazard_severity_impact |-> base_severity * 100,
     historical_frequency_impact |-> Min(event_count * 1000, 10000)]

\* The weights of _calculate_<hazard>_risk, in hundredths
HazardWeights(hazard_type) ==
    CASE hazard_type = "earthquake" ->
            [population_density_impact |-> 15, building_code_impact |-> 35,
             infrastructure_impact |-> 25, hazard_severity_impact |-> 15,
             historical_frequency_impact |-> 10]
      [] hazard_type = "flood" ->
            [population_density_impact |-> 20, building_code_impact |-> 15,
             infrastructure_impact |-> 35, hazard_severity_impact |-> 20,
             historical_frequency_impact |-> 10]
      [] hazard_type = "fire" ->
            [population_density_impact |-> 30, building_code_impact |-> 30,
             infrastructure_impact |-> 15, hazard_severity_impact |-> 15,
             historical_frequency_impact |-> 10]
      [] hazard_type = "storm" ->
            [population_density_impact |-> 20, building_code_impact |-> 25,
             infrastructure_impact |-> 30, hazard_severity_impact |-> 15,
             historical_frequency_impact |-> 10]
      [] OTHER ->
            [population_density_impact |-> 20, building_code_impact |-> 20,
             infrastructure_impact |-> 20, hazard_severity_impact |-> 20,
             historical_frequency_impact |-> 20]

\* _calculate_hazard_specific_risk: round(min(max(score, 0), 100), 2)
HazardSpecificRisk(hazard_type, factors) ==
    LET weights == HazardWeights(hazard_type)
        score == SumOver([k \in DOMAIN weights |-> factors[k] * weights[k]],
                         DOMAIN weights)
    IN  Round2(Min(Max(score \div 10, 0), 100000))

\* hazard_recommendations[hazard_type][:2]
HazardRecommendations(hazard_type) ==
    CASE hazard_type = "earthquake" ->
            <<"Retrofit buildings to meet seismic standards",
              "Establish earthquake early warning systems">>
      [] hazard_type = "flood" ->
            <<"Improve drainage systems and flood barriers",
              "Implement flood warning systems">>
      [] hazard_type = "fire" ->
            <<"Enhance fire detection and suppression systems",
              "Create firebreaks and defensible spaces">>
      [] hazard_type = "storm" ->
            <<"Strengthen building codes for wind resistance",
              "Improve power grid resilience">>
      [] OTHER -> <<>>

\* _generate_recommendations (304-369)
GenerateRecommendations(risk_score, risk_level, hazard_type, factors) ==
    LET general ==
            IF risk_level = "critical"
            THEN <<"CRITICAL: Immediate evacuation planning required",
                   "Establish emergency response protocols">>
            ELSE IF risk_level = "high"
            THEN <<"HIGH RISK: Develop comprehensive mitigation strategies",
                   "Conduct regular safety drills">>
            ELSE <<>>
        building == IF factors.building_code_impact > 6000
                    THEN <<"Upgrade building codes and enforcement">> ELSE <<>>
        infra == IF factors.infrastructure_impact > 6000
                 THEN <<"Invest in infrastructure modernization">> ELSE <<>>
        density == IF factors.population_density_impact > 7000
                   THEN <<"Develop density-specific emergency response plans">>
                   ELSE <<>>
        recommendations ==
            general \o HazardRecommendations(hazard_type) \o building \o infra
                \o density
    IN  SubSeq(recommendations, 1, Min(5, Len(recommendations)))

\* calculate_risk (28-71), without the confidence
CalculateRisk(hazard_type, pop_density, building_code, infrastructure, base_severity, event_count) ==
    LET factors_analysis == AnalyzeFactors(pop_density, building_code,
                                           infrastructure, base_severity, event_count)
        risk_score == HazardSpecificRisk(hazard_type, factors_analysis)
        risk_level == ServiceRiskLevel(10 * risk_score)
    IN  [risk_score |-> risk_score, risk_level |-> risk_level,
         factors |-> factors_analysis,
         recommendations |-> GenerateRecommendations(risk_score, risk_level,
                                                     hazard_type, factors_analysis)]

InitRiskSpec ==
    /\ InitCache /\ max_size = 1
    /\ InitService
    /\ InitConc
    /\ InitKeyIdle
    /\ InitAssess
    /\ distance_cache = EmptyCache
    /\ proximity_cache_size = 0
    /\ scoreIn \in [hazard_type : {"earthquake", "flood", "fire", "storm"},
                    population_density : {0, 7100, 20000},
                    building_code_rating : {0, 39, 40, 100},
                    infrastructure_quality : {0, 39, 100},
                    base_severity : {0, 50, 100},
                    event_count : {0, 10}]
    /\ scoreOut = <<>>
    /\ threads = NoThreads
    /\ InitWsIdle

RiskCall ==
    /\ scoreOut = <<>>
    /\ scoreOut' = << CalculateRisk(scoreIn.hazard_type, scoreIn.population_density,
                                    scoreIn.building_code_rating,
                                    scoreIn.infrastructure_quality,
                                    scoreIn.base_severity, scoreIn.event_count) >>
    /\ UNCHANGED distance_cache
    /\ EngineFrame

NextRisk == RiskCall

SpecRisk == InitRiskSpec /\ [][NextRisk]_vars

HazardSpecificItems ==
    {"Retrofit buildings to meet seismic standards",
     "Establish earthquake early warning systems",
     "Conduct structural assessments of critical infrastructure",
     "Improve drainage systems and flood barriers",
     "Implement flood warning systems",
     "Review and update flood zone mapping",
     "Enhance fire detection and suppression systems",
     "Create firebreaks and defensible spaces",
     "Improve emergency access routes",
     "Strengthen building codes for wind resistance",
     "Improve power grid resilience",
     "Establish storm shelters"}

FactorSpecificItems ==
    {"Upgrade building codes and enforcement",
     "Invest in infrastructure modernization",
     "Develop density-specific emergency response plans"}

CountIn(items, S) == Cardinality({i \in DOMAIN items : items[i] \in S})

\* C24: the recommendation list has between 1 and 5 items, of which at
\* most 2 are hazard-specific and at most 2 are factor-specific.
C24_RecommendationCounts ==
    scoreOut # <<>> =>
        /\ Len(scoreOut[1].recommendations) >= 1
        /\ Len(scoreOut[1].recommendations) <= 5
        /\ CountIn(scoreOut[1].recommendations, HazardSpecificItems) <= 2
        /\ CountIn(scoreOut[1].recommendations, FactorSpecificItems) <= 2

\* What the code keeps: between 2 and 5 items, exactly 2 of them
\* hazard-specific, and up to 3 factor-specific.
C24_AtMostThreeFactorItems ==
    scoreOut # <<>> =>
        /\ Len(scoreOut[1].recommendations) \in 2..5
        /\ CountIn(scoreOut[1].recommendations, HazardSpecificItems) = 2
        /\ CountIn(scoreOut[1].recommendations, FactorSpecificItems) <= 3

(***************************************************************************)
(* RiskEngine._calculate_historical_weighting on lists of up to            *)
(* MaxHistoryEvents events                                                 *)
(***************************************************************************)
MaxHistoryEvents == 10

InitHistorySpec ==
    /\ InitCache /\ max_size = 1
    /\ InitService
    /\ InitConc
    /\ InitKeyIdle
    /\ InitAssess
    /\ distance_cache = EmptyCache
    /\ proximity_cache_size = 0
    /\ scoreIn \in SeqsUpTo(EventInputs, MaxHistoryEvents)
    /\ scoreOut = <<>>
    /\ threads = NoThreads
    /\ InitWsIdle

\* scoreOut: the frequency_boost of line 791 and the value returned
HistoryCall ==
    /\ scoreOut = <<>>
    /\ scoreOut' = << [frequency_boost |-> IF scoreIn = <<>> THEN 0
                                           ELSE FrequencyBoost(scoreIn),
                       score |-> HistoricalWeighting(scoreIn)] >>
    /\ UNCHANGED distance_cache
    /\ EngineFrame

NextHistory == HistoryCall

SpecHistory == InitHistorySpec /\ [][NextHistory]_vars

\* C25: the frequency bonus reaches +20% for lists of 10 or more events,
\* stays below +20% for every list of fewer than 10 events, and the
\* boosted result never exceeds 100.
C25_BonusReachedAtTenEvents ==
    scoreOut # <<>> =>
        /\ Len(scoreIn) >= 10 => scoreOut[1].frequency_boost = 200
        /\ Len(scoreIn) < 10 => scoreOut[1].frequency_boost < 200
        /\ scoreOut[1].score <= 100000

\* What the code does: the bonus is +10% for one event and +20% from two
\* events on, and the boosted result never exceeds 100.
C25_BonusReachedAtTwoEvents ==
    scoreOut # <<>> =>
        /\ Len(scoreIn) >= 2 => scoreOut[1].frequency_boost = 200
        /\ Len(scoreIn) = 1 => scoreOut[1].frequency_boost = 100
        /\ scoreOut[1].score <= 100000

(***************************************************************************)
(* The access order of InMemoryCache (specification Spec)                  *)
(***************************************************************************)
\* C26: after any sequence of get, set, delete and clear calls the LRU
\* order list contains exactly the keys of the stored entries, each
\* exactly once.
C26_OrderListsStoredKeys ==
    /\ {access_order[i] : i \in DOMAIN access_order} = DOMAIN cache
    /\ \A i, j \in DOMAIN access_order : access_order[i] = access_order[j] => i = j

\* A delete took one of two stored keys away: one entry and one key in the
\* order are left.
C26_Witness ==
    /\ lastOp.op = "delete"
    /\ lastOp.args # <<>>
    /\ lastOp.args[1] \notin DOMAIN cache
    /\ ~InSeq(access_order, lastOp.args[1])
    /\ Size = 1
    /\ Len(access_order) = 1
    /\ lastOp.removed # {}

(***************************************************************************)
(* The hit and miss counters of CachingService (specification SpecService) *)
(***************************************************************************)
\* C27: every get_risk_assessment call increments exactly one of hit_count
\* and miss_count by one: hit_count exactly when the cache held an
\* unexpired entry for the key, whatever value was stored, and miss_count
\* otherwise.
C27_HitCountedForAnyStoredValue ==
    [][(lastOp'.op = "get_risk_assessment" /\ ~lastOp'.raised) =>
        LET k == lastOp'.args[1]
        IN  IF Live(cache, k, now)
            THEN hit_count' = hit_count + 1 /\ miss_count' = miss_count
            ELSE miss_count' = miss_count + 1 /\ hit_count' = hit_count]_vars

\* What the code does: exactly one counter goes up by one, hit_count when
\* the returned value is truthy; an unexpired entry holding an empty dict
\* is returned to the caller and counted as a miss.
C27_HitCountedForTruthyValue ==
    [][(lastOp'.op = "get_risk_assessment" /\ ~lastOp'.raised) =>
        LET k == lastOp'.args[1]
        IN  IF Live(cache, k, now) /\ cache[k].value # EmptyDict
            THEN hit_count' = hit_count + 1 /\ miss_count' = miss_count
            ELSE miss_count' = miss_count + 1 /\ hit_count' = hit_count]_vars

(***************************************************************************)
(* The TTL argument of InMemoryCache.set (specification Spec)              *)
(***************************************************************************)
\* C28: an entry stored by set with an explicit ttl_seconds = t, for every
\* t >= 0, expires t seconds after its insertion (an entry set with t = 0
\* is a miss for any later get); only a call with no ttl uses the default.
C28_ExplicitTtlHonoured ==
    [][\A k \in Keys, v \in DirectValues, ttl \in TtlArgs :
          (Set(k, v, ttl) /\ ~lastOp'.raised /\ ttl # <<>>)
              => /\ cache'[k].expires_at = now + ttl[1]
                 /\ ~Live(cache', k, now + ttl[1] + 1)]_vars

\* What the code does: a positive ttl_seconds is honoured, and both no ttl
\* and ttl_seconds = 0 store the entry with the default TTL.
C28_PositiveTtlHonoured ==
    [][\A k \in Keys, v \in DirectValues, ttl \in TtlArgs :
          (Set(k, v, ttl) /\ ~lastOp'.raised)
              => cache'[k].expires_at =
                     now + (IF ttl = <<>> \/ ttl[1] = 0 THEN default_ttl ELSE ttl[1])]_vars

(***************************************************************************)
(* The order of the fault lines (specification SpecScore)                  *)
(***************************************************************************)
\* C29: the seismic score does not depend on the order in which the fault
\* lines are listed: the call on the same faults in the opposite order,
\* from the same distance cache, returns the same score.
C29_SeismicOrderIndependent ==
    [][(scoreOut = <<>> /\ scoreOut' # <<>> /\ scoreOut'[1].scorer = "seismic") =>
        LET faults == scoreIn.sources
            permuted == [i \in 1..Len(faults) |-> faults[Len(faults) + 1 - i]]
            other == CalculateSeismicRisk(scoreIn.location, permuted, scoreIn.events,
                                          scoreOut'[1].args.soil_amplification,
                                          scoreOut'[1].args.building_code_rating,
                                          distance_cache, proximity_cache_size, 0)
        IN  other.score = scoreOut'[1].score]_vars

(***************************************************************************)
(* The websocket stream handlers and RealTimeVisualizationManager.  Each   *)
(* action is one stretch of a handler between two awaits; an await on the  *)
(* websocket or on the database returns or raises.                         *)
(***************************************************************************)
MaxUpdates == 1     \* updates a handler sends before the model stops counting

StreamKinds == {"location", "region", "hazard"}
\* Ids asked for, and the ids of the rows the tables hold.
StreamIds == {1, 2}
StoredIds == {1}
\* WebSocketDisconnect, and any other exception.
Raisable == {"WebSocketDisconnect", "Exception"}

\* channel = f"location:{location_id}", f"region:...", f"hazard:{hazard_id}"
Channel(kind, id) == <<kind, id>>

\* RealTimeVisualizationManager.connect, after websocket.accept() returned
ManagerConnect(ac, subs, websocket, channel) ==
    LET subs1 == IF channel \notin DOMAIN subs THEN Put(subs, channel, {}) ELSE subs
    IN  [active |-> Append(ac, websocket),
         subscriptions |-> Put(subs1, channel, subs1[channel] \cup {websocket})]

\* RealTimeVisualizationManager.disconnect.  raised: ValueError of
\* list.remove when the websocket is not in active_connections.
ManagerDisconnect(ac, subs, websocket, channel) ==
    IF ~InSeq(ac, websocket)
    THEN [active |-> ac, subscriptions |-> subs, raised |-> TRUE]
    ELSE [active |-> RemoveFirst(ac, websocket),
          subscriptions |-> IF channel \in DOMAIN subs
                            THEN Put(subs, channel, subs[channel] \ {websocket})
                            ELSE subs,
          raised |-> FALSE]

WsFrame == UNCHANGED <<cacheVars, svcVars, concVars, keyVars, assessVars, engineVars>>

\* The handler of w moves to pc.
HandlerGoto(w, pc) ==
    /\ handlers' = [handlers EXCEPT ![w].pc = pc]
    /\ UNCHANGED <<active_connections, subscriptions>>

\* The except clauses: disconnect, and after "except Exception" the error
\* message is sent.  A ValueError of disconnect leaves the handler.
Caught(w, exc) ==
    LET h == handlers[w]
        r == ManagerDisconnect(active_connections, subscriptions, w, h.channel)
    IN  /\ active_connections' = r.active
        /\ subscriptions' = r.subscriptions
        /\ handlers' = [handlers EXCEPT ![w] =
                           [h EXCEPT !.pc = IF r.raised \/ exc = "WebSocketDisconnect"
                                            THEN "done" ELSE "report",
                                     !.how = exc,
                                     !.cleanup_raised = r.raised,
                                     !.raised = r.raised]]

\* The server calls a handler with a new websocket.
StreamStart(w, kind, id) ==
    /\ handlers[w].pc = "idle"
    /\ handlers' = [handlers EXCEPT ![w].pc = "accept", ![w].channel = Channel(kind, id)]
    /\ UNCHANGED <<active_connections, subscriptions>>
    /\ WsFrame

\* await visualization_manager.connect(websocket, channel)
StreamConnect(w) ==
    LET h == handlers[w]
        r == ManagerConnect(active_connections, subscriptions, w, h.channel)
    IN  /\ h.pc = "accept"
        /\ active_connections' = r.active
        /\ subscriptions' = r.subscriptions
        /\ handlers' = [handlers EXCEPT ![w].registered = TRUE,
                                        ![w].pc = IF h.channel[1] = "region"
                                                  THEN "info" ELSE "lookup"]
        /\ WsFrame

\* websocket.accept() raised: nothing was registered.
StreamAcceptFails(w, exc) ==
    /\ handlers[w].pc = "accept"
    /\ Caught(w, exc)
    /\ WsFrame

\* result = await db.execute(select(...)); scalar_one_or_none()
StreamLookup(w) ==
    /\ handlers[w].pc = "lookup"
    /\ HandlerGoto(w, IF handlers[w].channel[2] \in StoredIds THEN "info" ELSE "not_found")
    /\ WsFrame

\* The not-found branch: the error message is sent, the websocket closed,
\* and the handler returns.
StreamNotFound(w) ==
    /\ handlers[w].pc = "not_found"
    /\ handlers' = [handlers EXCEPT ![w].pc = "done", ![w].how = "not_found"]
    /\ UNCHANGED <<active_connections, subscriptions>>
    /\ WsFrame

\* The initial location_info / region_info / hazard_info message
StreamInfo(w) ==
    /\ handlers[w].pc = "info"
    /\ HandlerGoto(w, "streaming")
    /\ WsFrame

\* One round of the while True loop: query, send, sleep
StreamUpdate(w) ==
    /\ handlers[w].pc = "streaming"
    /\ handlers[w].updates < MaxUpdates
    /\ handlers' = [handlers EXCEPT ![w].updates = @ + 1]
    /\ UNCHANGED <<active_connections, subscriptions>>
    /\ WsFrame

\* An await after the registration raised: the client went away
\* (WebSocketDisconnect) or the database or the send failed.
StreamRaises(w, exc) ==
    /\ handlers[w].pc \in {"lookup", "not_found", "info", "streaming"}
    /\ Caught(w, exc)
    /\ WsFrame

\* await websocket.send_json({'type': 'error', ...}) of "except Exception":
\* it returns, or it raises out of the handler.
StreamReport(w, sent) ==
    /\ handlers[w].pc = "report"
    /\ handlers' = [handlers EXCEPT ![w].pc = "done", ![w].raised = ~sent]
    /\ UNCHANGED <<active_connections, subscriptions>>
    /\ WsFrame

NextStream ==
    \/ \E w \in WebSockets, kind \in StreamKinds, id \in StreamIds : StreamStart(w, kind, id)
    \/ \E w \in WebSockets : StreamConnect(w)
    \/ \E w \in WebSockets, exc \in Raisable : StreamAcceptFails(w, exc)
    \/ \E w \in WebSockets : StreamLookup(w)
    \/ \E w \in WebSockets : StreamNotFound(w)
    \/ \E w \in WebSockets : StreamInfo(w)
    \/ \E w \in WebSockets : StreamUpdate(w)
    \/ \E w \in WebSockets, exc \in Raisable : StreamRaises(w, exc)
    \/ \E w \in WebSockets, sent \in BOOLEAN : StreamReport(w, sent)

\* The manager as constructed, no handler called yet.
InitStreamSpec == Init /\ max_size = 1

SpecStream == InitStreamSpec /\ [][NextStream]_vars

\* The websocket is in no list and no set of the manager.
Forgotten(w) ==
    /\ ~InSeq(active_connections, w)
    /\ \A ch \in DOMAIN subscriptions : w \notin subscriptions[ch]

\* C30: whenever a stream handler that registered its websocket with the
\* visualization manager terminates, by client disconnect, by an error or
\* by the not-found early return, the websocket is no longer in
\* active_connections nor in any channel's subscription set, and the
\* cleanup did not raise.
C30_TerminatedHandlerForgotten ==
    \A w \in WebSockets :
        (handlers[w].pc = "done" /\ handlers[w].registered)
            => (Forgotten(w) /\ ~handlers[w].cleanup_raised)

\* What the code does: the websocket is removed when the handler leaves
\* through one of its except clauses; the not-found return leaves it
\* registered.
C30_CaughtHandlerForgotten ==
    \A w \in WebSockets :
        (handlers[w].pc = "done" /\ handlers[w].registered)
            => IF handlers[w].how = "not_found"
               THEN InSeq(active_connections, w)
                    /\ w \in subscriptions[handlers[w].channel]
               ELSE Forgotten(w) /\ ~handlers[w].cleanup_raised

====
